---------------------------- MODULE Spec2Model ----------------------------
(***************************************************************************)
(* NMEA decoder, aggregator, movement engine and UDP stream reassembler    *)
(* of nmea_parser.py (classes NMEAParser and UDPReceiver, and the UDP      *)
(* pipeline of handle_udp_stream).                                         *)
(*                                                                         *)
(* Text is a sequence of one-character strings.  A Python float is a       *)
(* fixed-point integer with Scale units per 1; the sentences fed to the    *)
(* model carry at most one fractional digit, for which the fixed-point     *)
(* arithmetic below is exact.  A Python None is the empty tuple <<>> and a *)
(* present value v is the one-element tuple <<v>>.                         *)
(***************************************************************************)
EXTENDS Integers, Sequences, FiniteSets, TLC

VARIABLES
    position,            \* NMEAParser.position
    time_info,           \* NMEAParser.time_info
    satellites,          \* NMEAParser.satellites
    fix_info,            \* NMEAParser.fix_info
    velocity,            \* NMEAParser.velocity
    last_position,       \* NMEAParser.last_position
    position_history,    \* NMEAParser.position_history
    position_callbacks,  \* NMEAParser.position_callbacks
    clock,               \* the value the latest datetime.now() returned
    delivered,           \* observer invocations of the latest parse_sentence call
    ret,                 \* what the latest parse_sentence call returned or raised
    fed,                 \* the sentence text of the latest parse_sentence call
    nfed,                \* number of parse_sentence calls so far
    samples,             \* every sample a position update emitted, in order
    sentence_buffer,     \* UDPReceiver.sentence_buffer
    stats,               \* UDPReceiver.stats
    wire,                \* text of the datagrams still to arrive
    consumed,            \* text of the datagrams received so far
    forwarded,           \* lines handed to the data callback so far
    loop_errors,         \* error callback invocations of the receiver
    running,             \* UDPReceiver.running
    socket,              \* UDPReceiver.socket
    thread,              \* where the thread of _receive_loop stands
    caller,              \* where the thread of handle_udp_stream stands
    service,             \* the IOxNMEAService object and where its main thread stands
    splunk               \* the SplunkLogger object and where its threads stand

vars == << position, time_info, satellites, fix_info, velocity, last_position,
           position_history, position_callbacks, clock, delivered, ret, fed,
           nfed, samples, sentence_buffer, stats, wire, consumed,
           forwarded, loop_errors, running, socket, thread, caller,
           service, splunk >>

-----------------------------------------------------------------------------
(* Bounds of the model *)

MaxSentences == 2
MaxFixes == 3
MaxGsv == 3
MaxLines == 2
MaxDatagram == 24
MaxClock == 3
MaxUpdates == 102

(* Program constants *)

HistoryCap == 100
MovementThreshold == 1
EarthRadius == 6371000

-----------------------------------------------------------------------------
(* Python values *)

None == << >>
Some(v) == << v >>
IsNone(o) == o = << >>
Val(o) == o[1]

\* Python truthiness of an optional number: None and 0 are false
TruthyNum(o) == o # None /\ Val(o) # 0

-----------------------------------------------------------------------------
(* Text *)

Digits == << "0", "1", "2", "3", "4", "5", "6", "7", "8", "9" >>
IsDigit(c) == \E i \in 1..10 : Digits[i] = c
DigitVal(c) == (CHOOSE i \in 1..10 : Digits[i] = c) - 1
DigitChar(n) == Digits[n + 1]

\* s[a:b] of Python for 0 <= a, any b >= 0 (0-based, end exclusive, clamped)
Slice(s, a, b) ==
    LET hi == IF b > Len(s) THEN Len(s) ELSE b
    IN  IF a >= hi THEN << >> ELSE SubSeq(s, a + 1, hi)

\* s.find(c): 0-based index of the first c, -1 when absent
Find(s, c) ==
    IF \E i \in 1..Len(s) : s[i] = c
    THEN (CHOOSE i \in 1..Len(s) : s[i] = c /\ \A j \in 1..(i - 1) : s[j] # c) - 1
    ELSE -1

Contains(s, c) == \E i \in 1..Len(s) : s[i] = c

RECURSIVE SplitFrom(_, _, _, _)
SplitFrom(s, c, i, cur) ==
    IF i > Len(s) THEN << cur >>
    ELSE IF s[i] = c THEN << cur >> \o SplitFrom(s, c, i + 1, << >>)
    ELSE SplitFrom(s, c, i + 1, Append(cur, s[i]))

\* s.split(c)
Split(s, c) == SplitFrom(s, c, 1, << >>)

IsSpace(c) == c \in { " ", "\r", "\t", "\n" }

RECURSIVE LStrip(_)
LStrip(s) == IF s # << >> /\ IsSpace(Head(s)) THEN LStrip(Tail(s)) ELSE s

RECURSIVE RStrip(_)
RStrip(s) ==
    IF s # << >> /\ IsSpace(s[Len(s)]) THEN RStrip(SubSeq(s, 1, Len(s) - 1)) ELSE s

\* s.strip()
Strip(s) == RStrip(LStrip(s))

RECURSIVE DigitsVal(_)
DigitsVal(s) ==
    IF s = << >> THEN 0
    ELSE 10 * DigitsVal(SubSeq(s, 1, Len(s) - 1)) + DigitVal(s[Len(s)])

AllDigits(s) == \A i \in 1..Len(s) : IsDigit(s[i])

HasSign(s) == s # << >> /\ Head(s) \in { "-", "+" }
Unsigned(s) == IF HasSign(s) THEN Tail(s) ELSE s
Signed(s, n) == IF s # << >> /\ Head(s) = "-" THEN 0 - n ELSE n

\* int(s) succeeds: an optional sign and at least one digit
IsInt(s) == Unsigned(s) # << >> /\ AllDigits(Unsigned(s))
IntVal(s) == Signed(s, DigitsVal(Unsigned(s)))

\* float(s) succeeds: an optional sign, digits with at most one point, a digit:
\* the test on the digits before and after the point
IsDecimal(whole, frac) ==
    AllDigits(whole) /\ AllDigits(frac) /\ Len(whole) + Len(frac) > 0

\* the digits before and after the first point of an unsigned numeral
WholePart(u) == IF Contains(u, ".") THEN Slice(u, 0, Find(u, ".")) ELSE u
FracPart(u) == IF Contains(u, ".") THEN Slice(u, Find(u, ".") + 1, Len(u)) ELSE << >>

IsFloat(s) == IsDecimal(WholePart(Unsigned(s)), FracPart(Unsigned(s)))

RECURSIVE Pow10(_)
Pow10(n) == IF n = 0 THEN 1 ELSE 10 * Pow10(n - 1)

\* fixed-point units per 1.0: four fractional digits
Scale == Pow10(4)

\* float(s) in fixed point (fraction digits beyond the fourth are dropped)
Decimal(whole, frac) ==
    DigitsVal(whole) * Scale + DigitsVal(frac) * Pow10(4 - Len(frac))

FloatVal(s) ==
    Signed(s, Decimal(WholePart(Unsigned(s)), Slice(FracPart(Unsigned(s)), 0, 4)))

RECURSIVE NatStr(_)
\* str(n) for 0 <= n
NatStr(n) == IF n < 10 THEN << DigitChar(n) >> ELSE NatStr(n \div 10) \o << DigitChar(n % 10) >>

\* f"{n:02d}"
Pad2(n) ==
    IF n < 0 THEN << "-" >> \o NatStr(0 - n)
    ELSE IF n < 10 THEN << "0" >> \o NatStr(n)
    ELSE NatStr(n)

\* f"{x:06.3f}", x in fixed point: the point and three digits of m thousandths
Frac3(m) ==
    << ".", DigitChar(m \div 100), DigitChar((m \div 10) % 10), DigitChar(m % 10) >>

Fmt063(x) ==
    IF x < 0
    THEN << "-" >> \o NatStr((0 - x) \div Scale) \o Frac3(((0 - x) % Scale) \div 10)
    ELSE Pad2(x \div Scale) \o Frac3((x % Scale) \div 10)

-----------------------------------------------------------------------------
(* Field codecs of NMEAParser *)

\* parts[i] of Python (0-based)
P(parts, i) == parts[i + 1]

\* float(s) if s else None, for a field that converts
OptFloat(s) == IF s = << >> THEN None ELSE Some(FloatVal(s))
\* a bare float(s) / int(s) of a non-empty field raises ValueError
BadFloat(s) == s # << >> /\ ~IsFloat(s)
BadInt(s) == s # << >> /\ ~IsInt(s)
\* s if s else None
OptText(s) == IF s = << >> THEN None ELSE Some(s)

\* the try block of parse_time on the three slices
FormatTime(hh, mm, ss) ==
    IF IsInt(hh) /\ IsInt(mm) /\ IsFloat(ss)
    THEN Some(Pad2(IntVal(hh)) \o << ":" >> \o Pad2(IntVal(mm)) \o << ":" >>
                \o Fmt063(FloatVal(ss)))
    ELSE None

parse_time(time_str) ==
    IF time_str = << >> \/ Len(time_str) < 6 THEN None
    ELSE FormatTime(Slice(time_str, 0, 2), Slice(time_str, 2, 4),
                    Slice(time_str, 4, Len(time_str)))

\* the try block of parse_date on the three slices
FormatDate(dd, mm, yy) ==
    IF IsInt(dd) /\ IsInt(mm) /\ IsInt(yy)
    THEN Some(NatStr(2000 + IntVal(yy)) \o << "-" >> \o Pad2(IntVal(mm))
                \o << "-" >> \o Pad2(IntVal(dd)))
    ELSE None

parse_date(date_str) ==
    IF date_str = << >> \/ Len(date_str) # 6 THEN None
    ELSE FormatDate(Slice(date_str, 0, 2), Slice(date_str, 2, 4), Slice(date_str, 4, 6))

\* -decimal_degrees for S and W
Directed(decimal_degrees, direction) ==
    IF direction \in { << "S" >>, << "W" >> } THEN 0 - decimal_degrees ELSE decimal_degrees

\* degrees + minutes / 60.0, None when int() or float() raises
DecimalDegrees(degs, mins, direction) ==
    IF IsInt(degs) /\ IsFloat(mins)
    THEN Some(Directed(IntVal(degs) * Scale + FloatVal(mins) \div 60, direction))
    ELSE None

\* the split of coord_str two characters before the point
SplitCoordinate(coord_str, decimal_pos, direction) ==
    IF decimal_pos < 3 THEN None
    ELSE DecimalDegrees(Slice(coord_str, 0, decimal_pos - 2),
                        Slice(coord_str, decimal_pos - 2, Len(coord_str)), direction)

parse_coordinate(coord_str, direction) ==
    IF coord_str = << >> \/ direction = << >> THEN None
    ELSE IF ~Contains(coord_str, ".") THEN None
    ELSE SplitCoordinate(coord_str, Find(coord_str, "."), direction)

\* parse_coordinate(a, b) if a and b else None
OptCoordinate(a, b) == IF a # << >> /\ b # << >> THEN parse_coordinate(a, b) ELSE None

get_fix_quality(quality_str) ==
    CASE quality_str = << "0" >> -> << "Invalid" >>
      [] quality_str = << "1" >> -> << "GPS fix (SPS)" >>
      [] quality_str = << "2" >> -> << "DGPS fix" >>
      [] quality_str = << "3" >> -> << "PPS fix" >>
      [] quality_str = << "4" >> -> << "Real Time Kinematic" >>
      [] quality_str = << "5" >> -> << "Float RTK" >>
      [] quality_str = << "6" >> -> << "Estimated (dead reckoning)" >>
      [] quality_str = << "7" >> -> << "Manual input mode" >>
      [] quality_str = << "8" >> -> << "Simulation mode" >>
      [] OTHER -> << "Unknown" >> \o quality_str

get_fix_type(fix_str) ==
    CASE fix_str = << "1" >> -> << "No fix" >>
      [] fix_str = << "2" >> -> << "2D fix" >>
      [] fix_str = << "3" >> -> << "3D fix" >>
      [] OTHER -> << "Unknown" >> \o fix_str

StartsWith(s, pre) == Len(s) >= Len(pre) /\ SubSeq(s, 1, Len(pre)) = pre

get_constellation(sentence_type) ==
    IF StartsWith(sentence_type, << "G", "P" >>) THEN "GPS"
    ELSE IF StartsWith(sentence_type, << "G", "L" >>) THEN "GLONASS"
    ELSE IF StartsWith(sentence_type, << "G", "A" >>) THEN "Galileo"
    ELSE IF StartsWith(sentence_type, << "G", "B" >>) THEN "BeiDou"
    ELSE IF StartsWith(sentence_type, << "G", "N" >>) THEN "GNSS (Multi-constellation)"
    ELSE "Unknown"

-----------------------------------------------------------------------------
(* Movement engine *)

RECURSIVE SqrtBetween(_, _, _)
SqrtBetween(n, lo, hi) ==
    IF lo >= hi THEN lo
    ELSE LET mid == (lo + hi + 1) \div 2
         IN  IF mid * mid <= n THEN SqrtBetween(n, mid, hi) ELSE SqrtBetween(n, lo, mid - 1)

\* floor of the square root
ISqrt(n) == SqrtBetween(n, 0, 40000)

\* x * num / den without leaving 32 bits
MulDiv(x, num, den) == (x \div den) * num + ((x % den) * num) \div den

\* metres of one degree of a great circle: r * pi / 180 with pi = 355/113
EarthDegreeMetres == MulDiv(EarthRadius, 355, 113 * 180)

\* Great-circle distance in fixed-point metres.  The model has no
\* trigonometry: for the fixes fed here, all within one degree of the
\* equator and of the prime meridian, the haversine distance is the length of
\* the degree difference times the metres of one degree.
_haversine_distance(lat1, lon1, lat2, lon2) ==
    LET dlat == lat2 - lat1
        dlon == lon2 - lon1
    IN  ISqrt(dlat * dlat + dlon * dlon) * EarthDegreeMetres

Sign(x) == IF x > 0 THEN 1 ELSE IF x < 0 THEN -1 ELSE 0

\* Forward azimuth in whole degrees, to the nearest compass octant, normalised
\* to 0..359 by (bearing + 360) % 360; atan2(0, 0) is 0.
_calculate_bearing(lat1, lon1, lat2, lon2) ==
    LET y == Sign(lon2 - lon1)
        x == Sign(lat2 - lat1)
        bearing == CASE y = 0 /\ x >= 0 -> 0
                     [] y = 0 /\ x < 0 -> 180
                     [] y > 0 /\ x > 0 -> 45
                     [] y > 0 /\ x = 0 -> 90
                     [] y > 0 /\ x < 0 -> 135
                     [] y < 0 /\ x > 0 -> -45
                     [] y < 0 /\ x = 0 -> -90
                     [] y < 0 /\ x < 0 -> -135
    IN  (bearing + 360) % 360

\* the movement dictionary
MovementDict(distance_m, bearing, time_diff, speed_ms) ==
    [ distance_m  |-> distance_m,
      bearing_deg |-> bearing,
      time_diff_s |-> time_diff,
      speed_ms    |-> speed_ms,
      speed_knots |-> MulDiv(speed_ms, 12149, 6250),  \* * 1.94384
      speed_kmh   |-> MulDiv(speed_ms, 18, 5),        \* * 3.6
      is_moving   |-> distance_m > MovementThreshold * Scale ]

\* a guard that lets a negative time_diff through
SpeedMs_NonZero(distance_m, time_diff) ==
    IF time_diff # 0 THEN distance_m \div time_diff ELSE 0

\* the speed stays 0 unless time_diff > 0
SpeedMs(distance_m, time_diff) == IF time_diff > 0 THEN distance_m \div time_diff ELSE 0

MovementOf(distance_m, bearing, time_diff) ==
    MovementDict(distance_m, bearing, time_diff, SpeedMs(distance_m, time_diff))

\* {} is None; the movement dictionary otherwise
_calculate_movement(last_pos, current_pos) ==
    IF ~(/\ TruthyNum(last_pos.latitude) /\ TruthyNum(last_pos.longitude)
         /\ TruthyNum(current_pos.latitude) /\ TruthyNum(current_pos.longitude))
    THEN None
    ELSE Some(MovementOf(
                 _haversine_distance(Val(last_pos.latitude), Val(last_pos.longitude),
                                     Val(current_pos.latitude), Val(current_pos.longitude)),
                 _calculate_bearing(Val(last_pos.latitude), Val(last_pos.longitude),
                                    Val(current_pos.latitude), Val(current_pos.longitude)),
                 current_pos.timestamp - last_pos.timestamp))

\* position_data.get(key)
Get(position_data, key) ==
    IF key \in DOMAIN position_data THEN position_data[key] ELSE None

\* the position_info dictionary of _process_new_position, before movement
PositionInfo(position_data, now) ==
    [ timestamp      |-> now,
      latitude       |-> Get(position_data, "latitude"),
      longitude      |-> Get(position_data, "longitude"),
      altitude       |-> Get(position_data, "altitude"),
      time           |-> Get(position_data, "time"),
      fix_quality    |-> Get(position_data, "fix_quality"),
      num_satellites |-> IF "num_satellites" \in DOMAIN position_data
                         THEN Some(position_data.num_satellites) ELSE None,
      hdop           |-> Get(position_data, "hdop"),
      source         |-> position_data.type,
      movement       |-> None ]

\* a slip: pop() for pop(0), the newest sample is the one dropped
AppendHistory_PopLast(history, position_info) ==
    LET h == Append(history, position_info)
    IN  IF Len(h) > HistoryCap THEN SubSeq(h, 1, Len(h) - 1) ELSE h

\* position_history after append and eviction
AppendHistory(history, position_info) ==
    LET h == Append(history, position_info)
    IN  IF Len(h) > HistoryCap THEN Tail(h) ELSE h

\* a slip: no try/except around the call, the first exception ends the loop
CallCallbacks_Abort(callbacks, position_info, outcome) ==
    LET n == IF \E i \in 1..Len(callbacks) : outcome[callbacks[i]]
             THEN CHOOSE i \in 1..Len(callbacks) :
                      /\ outcome[callbacks[i]]
                      /\ \A j \in 1..(i - 1) : ~outcome[callbacks[j]]
             ELSE Len(callbacks)
    IN  [ i \in 1..n |->
            [ callback |-> callbacks[i], info |-> position_info,
              raised |-> outcome[callbacks[i]] ] ]

\* the callback loop: every registered callback is called with position_info;
\* an exception of a callback is caught and printed
CallCallbacks(callbacks, position_info, outcome) ==
    [ i \in 1..Len(callbacks) |->
        [ callback |-> callbacks[i], info |-> position_info,
          raised |-> outcome[callbacks[i]] ] ]

\* position_info with the movement since last_position, when there is one
WithMovement(st, position_info) ==
    IF st.last_position # None
    THEN [ position_info EXCEPT !.movement =
             _calculate_movement(Val(st.last_position), position_info) ]
    ELSE position_info

\* what a callback finds in the parser when it is called
Seen(st) ==
    [ position         |-> st.position,
      position_history |-> st.position_history,
      last_position    |-> st.last_position,
      time_info        |-> st.time_info,
      fix_info         |-> st.fix_info,
      velocity         |-> st.velocity ]

\* the invocations, each with the parser as it is during the loop
Seeing(calls, seen) ==
    [ i \in 1..Len(calls) |->
        [ callback |-> calls[i].callback, info |-> calls[i].info,
          raised |-> calls[i].raised, seen |-> seen ] ]

\* the callbacks run on the parser after the history and last_position
Published(st, position_info, outcome) ==
    [ st |-> st,
      calls |-> Seeing(CallCallbacks(st.position_callbacks, position_info, outcome),
                       Seen(st)) ]

\* a last_position taken before the movement was added to the sample
Publish_StaleLast(st, position_info, now, outcome) ==
    Published([ st EXCEPT !.position_history = AppendHistory(@, position_info),
                          !.last_position = Some([ position_info EXCEPT !.movement = None ]),
                          !.clock = now,
                          !.samples = Append(@, position_info) ],
              position_info, outcome)

\* the history, last_position and the callbacks
Publish(st, position_info, now, outcome) ==
    Published([ st EXCEPT !.position_history = AppendHistory(@, position_info),
                          !.last_position = Some(position_info),
                          !.clock = now,
                          !.samples = Append(@, position_info) ],
              position_info, outcome)

\* a slip: movement is taken from the oldest sample of the history
_process_new_position_FromFirst(st, position_data, now, outcome) ==
    Publish(st,
            IF st.last_position # None
            THEN [ PositionInfo(position_data, now) EXCEPT !.movement =
                     _calculate_movement(st.position_history[1],
                                         PositionInfo(position_data, now)) ]
            ELSE PositionInfo(position_data, now),
            now, outcome)

\* st is the parser object; the result is the parser object afterwards and
\* the callback invocations made
_process_new_position(st, position_data, now, outcome) ==
    Publish(st, WithMovement(st, PositionInfo(position_data, now)), now, outcome)

-----------------------------------------------------------------------------
(* Sentence handlers.  Each handler parse_x of the source is modelled in two *)
(* halves.  parse_x(parts) is its decoding half: the dictionary built, Empty *)
(* for too few fields, or ValueError when a bare int() or float() raises     *)
(* (every conversion of a handler precedes its first store, so nothing is    *)
(* stored then).  parse_x_store(st, result, ...) is its storing half: the    *)
(* parser object st after the stores, and the callback invocations made.     *)

Empty == [ type |-> "{}" ]
ValueError == [ type |-> "ValueError" ]

Stored(st, calls) == [ st |-> st, calls |-> calls ]

parse_gga_Raises(parts) ==
    \/ BadInt(P(parts, 7))
    \/ BadFloat(P(parts, 8))
    \/ BadFloat(P(parts, 9))
    \/ BadFloat(P(parts, 11))

parse_gga_Result(parts) ==
    [ type           |-> "GGA",
      time           |-> IF P(parts, 1) # << >> THEN parse_time(P(parts, 1)) ELSE None,
      latitude       |-> OptCoordinate(P(parts, 2), P(parts, 3)),
      longitude      |-> OptCoordinate(P(parts, 4), P(parts, 5)),
      fix_quality    |-> IF P(parts, 6) # << >> THEN Some(get_fix_quality(P(parts, 6)))
                         ELSE None,
      num_satellites |-> IF P(parts, 7) # << >> THEN IntVal(P(parts, 7)) ELSE 0,
      hdop           |-> OptFloat(P(parts, 8)),
      altitude       |-> OptFloat(P(parts, 9)),
      altitude_units |-> OptText(P(parts, 10)),
      geoid_height   |-> OptFloat(P(parts, 11)),
      geoid_units    |-> OptText(P(parts, 12)) ]

\* a slip: or for and
GgaHasPosition_Or(result) == TruthyNum(result.latitude) \/ TruthyNum(result.longitude)

\* if result['latitude'] and result['longitude']
GgaHasPosition(result) == TruthyNum(result.latitude) /\ TruthyNum(result.longitude)

\* the stores of parse_gga after the position part
GgaStoreRest(st, result) ==
    LET st1 == IF result.time # None THEN [ st EXCEPT !.time_info = result.time ] ELSE st
    IN  IF result.num_satellites # 0
        THEN [ st1 EXCEPT !.fix_info = Some([ satellites |-> result.num_satellites,
                                               quality    |-> result.fix_quality,
                                               hdop       |-> result.hdop ]) ]
        ELSE st1

\* a slip: the field count checked is one too low
parse_gga_OffByOne(parts) ==
    IF Len(parts) < 14 THEN Empty
    ELSE IF parse_gga_Raises(parts) THEN ValueError
    ELSE parse_gga_Result(parts)

parse_gga(parts) ==
    IF Len(parts) < 15 THEN Empty
    ELSE IF parse_gga_Raises(parts) THEN ValueError
    ELSE parse_gga_Result(parts)

\* the stores after the position update upd
GgaAfterPosition(upd, result) == Stored(GgaStoreRest(upd.st, result), upd.calls)

\* a parse_gga that stores time and fix before it processes the position
parse_gga_store_RestFirst(st, result, now, outcome) ==
    IF GgaHasPosition(result)
    THEN _process_new_position(
             [ GgaStoreRest(st, result) EXCEPT
                 !.position = Some(<< result.latitude, result.longitude,
                                      Get(result, "altitude") >>) ],
             result, now, outcome)
    ELSE Stored(GgaStoreRest(st, result), << >>)

parse_gga_store(st, result, now, outcome) ==
    IF GgaHasPosition(result)
    THEN GgaAfterPosition(
             _process_new_position(
                 [ st EXCEPT !.position = Some(<< result.latitude, result.longitude,
                                                  Get(result, "altitude") >>) ],
                 result, now, outcome),
             result)
    ELSE Stored(GgaStoreRest(st, result), << >>)

parse_rmc_Raises(parts) ==
    \/ BadFloat(P(parts, 7))
    \/ BadFloat(P(parts, 8))
    \/ BadFloat(P(parts, 10))

parse_rmc_Result(parts) ==
    [ type               |-> "RMC",
      time               |-> IF P(parts, 1) # << >> THEN parse_time(P(parts, 1)) ELSE None,
      status             |-> IF P(parts, 2) = << "A" >> THEN "Active" ELSE "Void",
      latitude           |-> OptCoordinate(P(parts, 3), P(parts, 4)),
      longitude          |-> OptCoordinate(P(parts, 5), P(parts, 6)),
      speed_knots        |-> OptFloat(P(parts, 7)),
      course             |-> OptFloat(P(parts, 8)),
      date               |-> IF P(parts, 9) # << >> THEN parse_date(P(parts, 9)) ELSE None,
      magnetic_variation |-> OptFloat(P(parts, 10)),
      mag_var_direction  |-> OptText(P(parts, 11)) ]

RmcHasPosition(result) == TruthyNum(result.latitude) /\ TruthyNum(result.longitude)

RmcStoreRest(st, result) ==
    LET st1 == IF result.time # None THEN [ st EXCEPT !.time_info = result.time ] ELSE st
    IN  IF result.speed_knots # None
        THEN [ st1 EXCEPT !.velocity =
                 Some([ speed_knots |-> Val(result.speed_knots),
                        speed_kmh   |-> MulDiv(Val(result.speed_knots), 463, 250),
                        course      |-> result.course ]) ]
        ELSE st1

parse_rmc(parts) ==
    IF Len(parts) < 13 THEN Empty
    ELSE IF parse_rmc_Raises(parts) THEN ValueError
    ELSE parse_rmc_Result(parts)

RmcAfterPosition(upd, result) == Stored(RmcStoreRest(upd.st, result), upd.calls)

\* a parse_rmc that keeps the altitude of the stored position
parse_rmc_store_KeepsAltitude(st, result, now, outcome) ==
    IF RmcHasPosition(result)
    THEN RmcAfterPosition(
             _process_new_position(
                 [ st EXCEPT !.position =
                     Some(<< result.latitude, result.longitude,
                             IF st.position = None THEN None ELSE Val(st.position)[3] >>) ],
                 result, now, outcome),
             result)
    ELSE Stored(RmcStoreRest(st, result), << >>)

parse_rmc_store(st, result, now, outcome) ==
    IF RmcHasPosition(result)
    THEN RmcAfterPosition(
             _process_new_position(
                 [ st EXCEPT !.position = Some(<< result.latitude, result.longitude,
                                                  None >>) ],
                 result, now, outcome),
             result)
    ELSE Stored(RmcStoreRest(st, result), << >>)

parse_gsa_Raises(parts) ==
    \/ \E i \in 3..14 : BadInt(P(parts, i))
    \/ BadFloat(P(parts, 15))
    \/ BadFloat(P(parts, 16))
    \/ BadFloat(P(parts, 17))

RECURSIVE SatellitesUsed(_, _)
\* [int(s) for s in parts[i:15] if s]
SatellitesUsed(parts, i) ==
    IF i >= 15 THEN << >>
    ELSE IF P(parts, i) # << >>
         THEN << IntVal(P(parts, i)) >> \o SatellitesUsed(parts, i + 1)
         ELSE SatellitesUsed(parts, i + 1)

parse_gsa_Result(parts) ==
    [ type            |-> "GSA",
      mode            |-> P(parts, 1),
      fix_type        |-> IF P(parts, 2) # << >> THEN Some(get_fix_type(P(parts, 2)))
                          ELSE None,
      satellites_used |-> SatellitesUsed(parts, 3),
      pdop            |-> OptFloat(P(parts, 15)),
      hdop            |-> OptFloat(P(parts, 16)),
      vdop            |-> OptFloat(P(parts, 17)) ]

parse_gsa(parts) ==
    IF Len(parts) < 18 THEN Empty
    ELSE IF parse_gsa_Raises(parts) THEN ValueError
    ELSE parse_gsa_Result(parts)

\* parse_gsa stores nothing
parse_gsa_store(st, result) == Stored(st, << >>)

\* the 0-based indices i of range(4, len(parts), 4) with i + 3 < len(parts)
\* and a non-empty PRN field
GsvGroups(parts) ==
    { i \in 4..(Len(parts) - 1) :
        (i - 4) % 4 = 0 /\ i + 3 < Len(parts) /\ P(parts, i) # << >> }

parse_gsv_Raises(parts) ==
    \/ BadInt(P(parts, 1))
    \/ BadInt(P(parts, 2))
    \/ BadInt(P(parts, 3))
    \/ \E i \in GsvGroups(parts) :
          \/ ~IsInt(P(parts, i))
          \/ BadFloat(P(parts, i + 1))
          \/ BadFloat(P(parts, i + 2))
          \/ BadFloat(P(parts, i + 3))

RECURSIVE GsvSatellites(_, _)
\* the satellites list, in field order, from the group at 0-based index i on
GsvSatellites(parts, i) ==
    IF i + 3 >= Len(parts) THEN << >>
    ELSE IF P(parts, i) # << >>
         THEN << [ prn       |-> IntVal(P(parts, i)),
                   elevation |-> OptFloat(P(parts, i + 1)),
                   azimuth   |-> OptFloat(P(parts, i + 2)),
                   snr       |-> OptFloat(P(parts, i + 3)) ] >>
              \o GsvSatellites(parts, i + 4)
         ELSE GsvSatellites(parts, i + 4)

parse_gsv_Result(parts) ==
    [ type             |-> "GSV",
      constellation    |-> get_constellation(P(parts, 0)),
      total_messages   |-> IF P(parts, 1) # << >> THEN IntVal(P(parts, 1)) ELSE 0,
      message_num      |-> IF P(parts, 2) # << >> THEN IntVal(P(parts, 2)) ELSE 0,
      total_satellites |-> IF P(parts, 3) # << >> THEN IntVal(P(parts, 3)) ELSE 0,
      satellites       |-> GsvSatellites(parts, 4) ]

\* existing.update(sat): every key of sat replaces the stored one
UpdateSat(existing, sat) ==
    [ prn |-> sat.prn, elevation |-> sat.elevation, azimuth |-> sat.azimuth,
      snr |-> sat.snr ]

\* one turn of the merge loop on the bucket list
MergeSat(bucket, sat) ==
    IF \E k \in 1..Len(bucket) : bucket[k].prn = sat.prn
    THEN LET k == CHOOSE k \in 1..Len(bucket) :
                      /\ bucket[k].prn = sat.prn
                      /\ \A j \in 1..(k - 1) : bucket[j].prn # sat.prn
         IN  [ bucket EXCEPT ![k] = UpdateSat(bucket[k], sat) ]
    ELSE Append(bucket, sat)

RECURSIVE MergeSats(_, _)
MergeSats(bucket, sats) ==
    IF sats = << >> THEN bucket
    ELSE MergeSats(MergeSat(bucket, Head(sats)), Tail(sats))

\* self.satellites after the merge into the bucket of constellation
StoreSatellites(table, constellation, sats) ==
    LET bucket == IF constellation \in DOMAIN table THEN table[constellation] ELSE << >>
    IN  [ c \in DOMAIN table \cup { constellation } |->
            IF c = constellation THEN MergeSats(bucket, sats) ELSE table[c] ]

\* the model's result carries get_constellation(parts[0]) for the storing half
parse_gsv(parts) ==
    IF Len(parts) < 8 THEN Empty
    ELSE IF parse_gsv_Raises(parts) THEN ValueError
    ELSE parse_gsv_Result(parts)

parse_gsv_store(st, result) ==
    Stored([ st EXCEPT !.satellites =
               StoreSatellites(@, result.constellation, result.satellites) ], << >>)

parse_vtg_Raises(parts) ==
    \/ BadFloat(P(parts, 1))
    \/ BadFloat(P(parts, 3))
    \/ BadFloat(P(parts, 5))
    \/ BadFloat(P(parts, 7))

parse_vtg_Result(parts) ==
    [ type            |-> "VTG",
      course_true     |-> OptFloat(P(parts, 1)),
      course_magnetic |-> OptFloat(P(parts, 3)),
      speed_knots     |-> OptFloat(P(parts, 5)),
      speed_kmh       |-> OptFloat(P(parts, 7)) ]

parse_vtg(parts) ==
    IF Len(parts) < 10 THEN Empty
    ELSE IF parse_vtg_Raises(parts) THEN ValueError
    ELSE parse_vtg_Result(parts)

parse_vtg_store(st, result) ==
    IF result.speed_knots # None
    THEN Stored([ st EXCEPT !.velocity =
             Some([ speed_knots |-> Val(result.speed_knots),
                    speed_kmh   |-> IF TruthyNum(result.speed_kmh)
                                    THEN Val(result.speed_kmh)
                                    ELSE MulDiv(Val(result.speed_knots), 463, 250),
                    course      |-> result.course_true ]) ], << >>)
    ELSE Stored(st, << >>)

parse_gns_Raises(parts) ==
    \/ BadInt(P(parts, 7))
    \/ BadFloat(P(parts, 8))
    \/ BadFloat(P(parts, 9))
    \/ BadFloat(P(parts, 10))

parse_gns_Result(parts) ==
    [ type           |-> "GNS",
      time           |-> IF P(parts, 1) # << >> THEN parse_time(P(parts, 1)) ELSE None,
      latitude       |-> OptCoordinate(P(parts, 2), P(parts, 3)),
      longitude      |-> OptCoordinate(P(parts, 4), P(parts, 5)),
      mode_indicator |-> P(parts, 6),
      num_satellites |-> IF P(parts, 7) # << >> THEN IntVal(P(parts, 7)) ELSE 0,
      hdop           |-> OptFloat(P(parts, 8)),
      altitude       |-> OptFloat(P(parts, 9)),
      geoid_height   |-> OptFloat(P(parts, 10)) ]

parse_gns(parts) ==
    IF Len(parts) < 13 THEN Empty
    ELSE IF parse_gns_Raises(parts) THEN ValueError
    ELSE parse_gns_Result(parts)

\* a parse_gns that stores its coordinates as the position
parse_gns_store_Folds(st, result) ==
    Stored([ st EXCEPT !.position = Some(<< result.latitude, result.longitude,
                                             result.altitude >>) ], << >>)

\* parse_gns stores nothing
parse_gns_store(st, result) == Stored(st, << >>)

parse_pqxfi_Raises(parts) ==
    \/ BadFloat(P(parts, 6))
    \/ BadFloat(P(parts, 7))
    \/ BadFloat(P(parts, 8))
    \/ (Len(parts) > 9 /\ BadFloat(P(parts, 9)))

parse_pqxfi_Result(parts) ==
    [ type      |-> "PQXFI",
      time      |-> IF P(parts, 1) # << >> THEN parse_time(P(parts, 1)) ELSE None,
      latitude  |-> OptCoordinate(P(parts, 2), P(parts, 3)),
      longitude |-> OptCoordinate(P(parts, 4), P(parts, 5)),
      altitude  |-> OptFloat(P(parts, 6)),
      value1    |-> OptFloat(P(parts, 7)),
      value2    |-> OptFloat(P(parts, 8)),
      value3    |-> IF Len(parts) > 9 THEN OptFloat(P(parts, 9)) ELSE None ]

parse_pqxfi(parts) ==
    IF Len(parts) < 9 THEN Empty
    ELSE IF parse_pqxfi_Raises(parts) THEN ValueError
    ELSE parse_pqxfi_Result(parts)

\* parse_pqxfi stores nothing
parse_pqxfi_store(st, result) == Stored(st, << >>)

-----------------------------------------------------------------------------
(* parse_sentence *)

T(s1, s2, s3, s4, s5) == << s1, s2, s3, s4, s5 >>

\* self.parsers: sentence-type token to handler
parsers ==
    [ t \in { T("G","P","G","G","A"), T("G","N","G","G","A"),
              T("G","P","R","M","C"), T("G","N","R","M","C"),
              T("G","P","G","S","A"), T("G","N","G","S","A"),
              T("G","P","G","S","V"), T("G","L","G","S","V"),
              T("G","A","G","S","V"), T("G","B","G","S","V"),
              T("G","P","V","T","G"), T("G","N","V","T","G"),
              T("G","N","G","N","S"), T("P","Q","X","F","I") } |->
        CASE t[3] = "G" /\ t[4] = "G" -> "parse_gga"
          [] t[3] = "R" -> "parse_rmc"
          [] t[4] = "S" /\ t[5] = "A" -> "parse_gsa"
          [] t[4] = "S" /\ t[5] = "V" -> "parse_gsv"
          [] t[3] = "V" -> "parse_vtg"
          [] t[4] = "N" /\ t[5] = "S" -> "parse_gns"
          [] OTHER -> "parse_pqxfi" ]

\* parts with its last part cut at the first '*'
CutChecksum(parts) ==
    IF Contains(parts[Len(parts)], "*")
    THEN [ parts EXCEPT ![Len(parts)] = Split(parts[Len(parts)], "*")[1] ]
    ELSE parts

\* the parts list the handler receives: split on ',' after the '$', the last
\* part cut at its first '*'
SentenceParts(sentence) == CutChecksum(Split(Tail(sentence), ","))

\* the decoding half of the handler
Dispatch(handler, parts) ==
    CASE handler = "parse_gga" -> parse_gga(parts)
      [] handler = "parse_rmc" -> parse_rmc(parts)
      [] handler = "parse_gsa" -> parse_gsa(parts)
      [] handler = "parse_gsv" -> parse_gsv(parts)
      [] handler = "parse_vtg" -> parse_vtg(parts)
      [] handler = "parse_gns" -> parse_gns(parts)
      [] handler = "parse_pqxfi" -> parse_pqxfi(parts)

\* the storing half of the handler
DispatchStore(handler, st, result, now, outcome) ==
    CASE handler = "parse_gga" -> parse_gga_store(st, result, now, outcome)
      [] handler = "parse_rmc" -> parse_rmc_store(st, result, now, outcome)
      [] handler = "parse_gsa" -> parse_gsa_store(st, result)
      [] handler = "parse_gsv" -> parse_gsv_store(st, result)
      [] handler = "parse_vtg" -> parse_vtg_store(st, result)
      [] handler = "parse_gns" -> parse_gns_store(st, result)
      [] handler = "parse_pqxfi" -> parse_pqxfi_store(st, result)

\* the record of a token without handler: {'type': sentence_type, 'raw': sentence};
\* the token is kept apart from the kinds of the handlers' records
Unknown(sentence_type, sentence) ==
    [ type |-> "Unknown", sentence_type |-> sentence_type, raw |-> sentence ]

\* the handler's decoding half under the token of the sentence
DecodeParts(sentence, sentence_type, parts) ==
    IF sentence_type \in DOMAIN parsers
    THEN [ handler |-> parsers[sentence_type],
           ret |-> Dispatch(parsers[sentence_type], parts) ]
    ELSE [ handler |-> "", ret |-> Unknown(sentence_type, sentence) ]

\* what parse_sentence decodes from the text alone: the handler chosen ("" for
\* none) and the handler's dictionary, Empty or ValueError
Decode(sentence) ==
    IF sentence = << >> \/ Head(sentence) # "$" THEN [ handler |-> "", ret |-> Empty ]
    ELSE DecodeParts(sentence, Split(Tail(sentence), ",")[1], SentenceParts(sentence))

-----------------------------------------------------------------------------
(* Sentences fed to the model *)

RECURSIVE Join(_)
\* ",".join(fields)
Join(fields) ==
    IF Len(fields) = 1 THEN fields[1]
    ELSE fields[1] \o << "," >> \o Join(Tail(fields))

\* n empty fields
Blank(n) == [ i \in 1..n |-> << >> ]

Sentence(token, fields) == << "$" >> \o Join(<< token >> \o fields)

GPGGA == T("G","P","G","G","A")
GNGGA == T("G","N","G","G","A")
GPRMC == T("G","P","R","M","C")
GPGSA == T("G","P","G","S","A")
GPGSV == T("G","P","G","S","V")
GLGSV == T("G","L","G","S","V")
GPVTG == T("G","P","V","T","G")
GNGNS == T("G","N","G","N","S")
PQXFI == T("P","Q","X","F","I")
GPZDA == T("G","P","Z","D","A")

Time1 == << "1", "2", "3", "5", "1", "9" >>
Time2 == << "1", "8", "3", "7", "3", "0", ".", "0" >>
LatA == << "0", "0", "3", "0", ".", "0" >>
LatB == << "0", "0", "3", "0", ".", "6" >>
LatZero == << "0", "0", "0", "0", ".", "0" >>
LonA == << "0", "0", "0", "0", "0", ".", "6" >>
N == << "N" >>
E == << "E" >>
W == << "W" >>
Bad == << "x" >>
D(c) == << c >>
Checksum == << "*", "4", "7" >>

\* a GGA of 15 fields
Gga(token, time, lat, ns, lon, ew, q, nsat, hdop, alt) ==
    Sentence(token, << time, lat, ns, lon, ew, q, nsat, hdop, alt, << "M" >>,
                       << >>, << >>, << >>, Checksum >>)

\* an RMC of 13 fields
Rmc(time, lat, ns, lon, ew, speed, course) ==
    Sentence(GPRMC, << time, << "A" >>, lat, ns, lon, ew, speed, course,
                       << >>, << >>, << >>, << >> >>)

\* a GSV of 8 fields carrying one satellite
Gsv(token, prn, el, az, snr) ==
    Sentence(token, << D("1"), D("1"), D("1"), prn, el, az, snr >>)

GgaSentences ==
    { Gga(GPGGA, Time1, LatA, N, LonA, E, D("1"), D("8"), << "0", ".", "9" >>, D("5")),
      Gga(GNGGA, Time2, LatB, N, LonA, W, D("2"), << >>, << >>, << >>),
      Gga(GPGGA, Time1, LatZero, N, LonA, E, D("1"), D("8"), << >>, << >>),
      Gga(GPGGA, Time2, << >>, << >>, LonA, E, D("1"), D("0"), << >>, << >>),
      Gga(GPGGA, Time1, LatA, N, LonA, E, D("1"), D("8"), Bad, D("5")),
      Sentence(GPGGA, << Time1, LatA, N, LonA, E >> \o Blank(8)) }

RmcSentences ==
    { Rmc(Time2, LatA, N, LonA, E, D("4"), D("9")),
      Rmc(Time1, LatB, N, LonA, E, << >>, << >>),
      Rmc(Time1, LatA, N, << >>, << >>, D("0"), << >>),
      Rmc(Time1, LatB, N, LonA, E, Bad, << >>),
      Sentence(GPRMC, << Time2, << "A" >>, LatA, N, LonA, E >> \o Blank(5)) }

GsvSentences ==
    { Gsv(GPGSV, D("1"), << "4", "5" >>, << "9", "0" >>, << "4", "0" >>),
      Gsv(GPGSV, D("1"), << >>, << "8", "0" >>, << "3", "0" >>),
      Gsv(GPGSV, D("2"), << "1", "0" >>, << >>, << >>),
      Gsv(GLGSV, D("1"), << "2", "0" >>, << >>, << >>),
      Gsv(GPGSV, D("3"), Bad, << >>, << >>),
      Sentence(GPGSV, << D("1"), D("1"), D("2"), D("4"), D("7"), D("7"), D("7"),
                         D("1"), D("6"), D("6"), D("6"), D("9"), D("5") >>),
      Sentence(GPGSV, << D("1"), D("1"), D("1"), D("5"), D("1"), D("1") >>) }

OtherSentences ==
    { Sentence(GPVTG, << D("9"), << "T" >>, << >>, << "M" >>, D("4"), << "N" >>,
                         << >>, << "K" >>, << "A" >> >>),
      Sentence(GPVTG, << D("9"), << "T" >>, << >>, << "M" >>, D("4"), << "N" >>,
                         << >>, << "K" >> >>),
      Sentence(GPVTG, << D("9"), << "T" >>, << >>, << "M" >>, << >>, << "N" >>,
                         D("7"), << "K" >>, << "A" >> >>),
      Sentence(GPGSA, << << "A" >>, D("3"), D("1"), D("2") >> \o Blank(10)
                         \o << D("2"), D("1"), D("1") >>),
      Sentence(GPGSA, << << "A" >>, D("3"), D("1"), D("2") >> \o Blank(10)
                         \o << D("2"), D("1") >>),
      Sentence(GPGSA, << << "A" >>, D("3"), D("1"), D("2") >> \o Blank(10)
                         \o << D("2"), D("1"), D("1") \o Checksum >>),
      Sentence(GNGNS, << Time2, LatB, N, LonA, E, << "A" >>, D("7"), D("1"),
                         D("5"), D("1"), << >>, << >> >>),
      Sentence(GNGNS, << Time2, LatB, N, LonA, E, << "A" >>, D("7"), D("1"),
                         D("5"), D("1"), << >> >>),
      Sentence(PQXFI, << Time2, LatB, N, LonA, E, D("5"), D("1"), D("1") >>),
      Sentence(PQXFI, << Time2, LatB, N, LonA, E, D("5"), D("1") >>),
      Sentence(GPZDA, << Time1 >>),
      << "G", "P" >> }

Catalogue == GgaSentences \cup RmcSentences \cup GsvSentences \cup OtherSentences

\* Decode of the sentences above, computed once
Decoded == [ sentence \in Catalogue |-> Decode(sentence) ]

Lookup(table, sentence) ==
    IF sentence \in DOMAIN table THEN table[sentence] ELSE Decode(sentence)

DecodeOf(sentence) == Lookup(Decoded, sentence)

\* what a call leaves: the parser object, the value returned and the callback
\* invocations made
Returned(r, result) == [ st |-> r.st, ret |-> result, calls |-> r.calls ]

\* parse_sentence once the text is decoded into d
Store(st, d, now, outcome) ==
    IF d.handler = "" \/ d.ret \in { Empty, ValueError }
    THEN [ st |-> st, ret |-> d.ret, calls |-> << >> ]
    ELSE Returned(DispatchStore(d.handler, st, d.ret, now, outcome), d.ret)

\* parse_sentence on the parser object st: the parser object afterwards, the
\* value returned (ValueError when the call raised) and the callback
\* invocations made
parse_sentence(st, sentence, now, outcome) ==
    Store(st, DecodeOf(sentence), now, outcome)

Observers == { "o1", "o2" }

-----------------------------------------------------------------------------
(* The parser object as a record, and back *)

Parser ==
    [ position           |-> position,
      time_info          |-> time_info,
      satellites         |-> satellites,
      fix_info           |-> fix_info,
      velocity           |-> velocity,
      last_position      |-> last_position,
      position_history   |-> position_history,
      position_callbacks |-> position_callbacks,
      clock              |-> clock,
      samples            |-> samples ]

SetParser(st) ==
    /\ position' = st.position
    /\ time_info' = st.time_info
    /\ satellites' = st.satellites
    /\ fix_info' = st.fix_info
    /\ velocity' = st.velocity
    /\ last_position' = st.last_position
    /\ position_history' = st.position_history
    /\ position_callbacks' = st.position_callbacks
    /\ clock' = st.clock
    /\ samples' = st.samples

lifeVars == << running, socket, thread, caller >>

hostVars == << service, splunk >>

receiverVars == << sentence_buffer, stats, wire, consumed, forwarded, loop_errors,
                   lifeVars, hostVars >>

\* the parser object NMEAParser.__init__ leaves
Parser0 ==
    [ position           |-> None,
      time_info          |-> None,
      satellites         |-> << >>,
      fix_info           |-> None,
      velocity           |-> None,
      last_position      |-> None,
      position_history   |-> << >>,
      position_callbacks |-> << >>,
      clock              |-> 0,
      samples            |-> << >> ]

\* the statistics UDPReceiver.__init__ leaves
Stats0 ==
    [ packets_received |-> 0, bytes_received |-> 0, sentences_parsed |-> 0,
      parse_errors |-> 0, connection_errors |-> 0, start_time |-> None ]

\* the service object IOxNMEAService.__init__ leaves, config.mode read from
\* the environment
Service0(mode) ==
    [ running      |-> FALSE,
      mode         |-> mode,
      udp_receiver |-> "None",
      web_server   |-> "None",
      sentences_processed |-> 0,
      main         |-> "constructed",
      entered      |-> "never",
      interrupted  |-> "nowhere" ]

\* a thread of the logger: where it stands, the events it holds for
\* _send_batch and the counter it has read for its "+="
Worker0(pc) ==
    [ pc |-> pc, events |-> << >>, loaded |-> 0, leaving |-> FALSE ]

\* the logger object SplunkLogger.__init__ leaves
Splunk0 ==
    [ connected      |-> FALSE,
      index          |-> None,
      event_queue    |-> << >>,
      shutdown_event |-> FALSE,
      stats          |-> [ events_sent |-> 0, events_failed |-> 0, batches_sent |-> 0 ],
      batch_thread   |-> Worker0("none"),
      closer         |-> Worker0("idle"),
      producer       |-> "idle",
      accepted       |-> 0,
      late           |-> FALSE,
      join_timed_out |-> FALSE,
      handled        |-> << >> ]

\* no service and no logger at work
InitHost ==
    /\ service = Service0("udp")
    /\ splunk = Splunk0

InitParser ==
    /\ position = Parser0.position
    /\ time_info = Parser0.time_info
    /\ satellites = Parser0.satellites
    /\ fix_info = Parser0.fix_info
    /\ velocity = Parser0.velocity
    /\ last_position = Parser0.last_position
    /\ position_history = Parser0.position_history
    /\ clock = Parser0.clock
    /\ samples = Parser0.samples
    /\ delivered = << >>
    /\ ret = Empty
    /\ fed = << >>
    /\ nfed = 0

\* the buffer and the statistics UDPReceiver.__init__ leaves
InitBuffer ==
    /\ sentence_buffer = << >>
    /\ stats = Stats0
    /\ consumed = << >>
    /\ forwarded = << >>
    /\ loop_errors = 0

InitReceiver ==
    /\ InitBuffer
    /\ running = FALSE
    /\ socket = None
    /\ thread = "none"
    /\ caller = "constructed"

Init ==
    /\ InitParser
    /\ InitHost
    /\ position_callbacks = Parser0.position_callbacks
    /\ InitReceiver
    /\ wire = << >>

\* the readings datetime.now() can give after the reading clock: wall-clock
\* time can stand still or step back
Nows == { t \in { clock - 1, clock, clock + 1 } : t >= 0 /\ t <= MaxClock }

NoRaise == [ o \in Observers |-> FALSE ]

\* each observer registers at most once
AddPositionCallback(callback) ==
    /\ \A i \in 1..Len(position_callbacks) : position_callbacks[i] # callback
    /\ position_callbacks' = Append(position_callbacks, callback)
    /\ UNCHANGED << position, time_info, satellites, fix_info, velocity, last_position,
                    position_history, clock, delivered, ret, fed, nfed, samples,
                    receiverVars >>

\* list.remove: the first occurrence goes
RemovePositionCallback(callback) ==
    /\ \E i \in 1..Len(position_callbacks) : position_callbacks[i] = callback
    /\ LET i == CHOOSE i \in 1..Len(position_callbacks) :
                    /\ position_callbacks[i] = callback
                    /\ \A j \in 1..(i - 1) : position_callbacks[j] # callback
       IN  position_callbacks' =
               SubSeq(position_callbacks, 1, i - 1)
                 \o SubSeq(position_callbacks, i + 1, Len(position_callbacks))
    /\ UNCHANGED << position, time_info, satellites, fix_info, velocity, last_position,
                    position_history, clock, delivered, ret, fed, nfed, samples,
                    receiverVars >>

\* the callbacks' behaviours to tell apart: whether each registered one raises
Outcomes ==
    { outcome \in [ Observers -> BOOLEAN ] :
        \A o \in Observers :
            outcome[o] => \E i \in 1..Len(position_callbacks) : position_callbacks[i] = o }

\* the decoded sentence makes a position update
MakesUpdate(d) ==
    /\ d.ret \notin { Empty, ValueError }
    /\ \/ d.handler = "parse_gga" /\ GgaHasPosition(d.ret)
       \/ d.handler = "parse_rmc" /\ RmcHasPosition(d.ret)

\* the call's effect on the parser and what it returned
Apply(r) ==
    /\ SetParser(r.st)
    /\ delivered' = r.calls
    /\ ret' = r.ret

\* One call of parse_sentence.  datetime.now() is read and the callbacks run
\* only inside a position update, so the reading and the callbacks' behaviour
\* are drawn only for a call that makes one.
CallDecoded(d) ==
    \E now \in IF MakesUpdate(d) THEN Nows ELSE { clock } :
       \E outcome \in IF MakesUpdate(d) THEN Outcomes ELSE { NoRaise } :
          Apply(Store(Parser, d, now, outcome))

Call(sentence) ==
    /\ CallDecoded(DecodeOf(sentence))
    /\ fed' = sentence
    /\ nfed' = nfed + 1
    /\ UNCHANGED receiverVars

\* the file-mode caller feeds one more line
ParseSentence(sentence) ==
    /\ nfed < MaxSentences
    /\ Call(sentence)

Next ==
    \/ \E callback \in Observers : AddPositionCallback(callback)
    \/ \E callback \in Observers : RemovePositionCallback(callback)
    \/ \E sentence \in Catalogue : ParseSentence(sentence)

Spec == Init /\ [][Next]_vars

-----------------------------------------------------------------------------
(* A session of fixes: GGA and RMC sentences only, with the position tracker *)
(* registered from the start, as main() does for --track-position            *)

FixSentences ==
    { Gga(GPGGA, Time1, LatA, N, LonA, E, D("1"), D("8"), << "0", ".", "9" >>, D("5")),
      Gga(GNGGA, Time2, LatB, N, LonA, W, D("2"), << >>, << >>, << >>),
      Gga(GPGGA, Time1, LatZero, N, LonA, E, D("1"), D("8"), << >>, << >>),
      Rmc(Time2, LatA, N, LonA, E, D("4"), D("9")),
      Rmc(Time1, LatB, N, LonA, E, << >>, << >>),
      Rmc(Time1, LatA, N, << >>, << >>, D("0"), << >>),
      Rmc(Time1, LatA, N, LonA, E, D("4"), D("9")) }

ParseFix(sentence) ==
    /\ nfed < MaxFixes
    /\ Call(sentence)

InitFix ==
    /\ InitParser
    /\ InitHost
    /\ position_callbacks = << "o1" >>
    /\ InitReceiver
    /\ wire = << >>

NextFix == \E sentence \in FixSentences : ParseFix(sentence)

SpecFix == InitFix /\ [][NextFix]_vars

-----------------------------------------------------------------------------
(* A session of satellite-in-view sentences *)

ParseGsv(sentence) ==
    /\ nfed < MaxGsv
    /\ Call(sentence)

NextSat == \E sentence \in GsvSentences : ParseGsv(sentence)

SpecSat == Init /\ [][NextSat]_vars

-----------------------------------------------------------------------------
(* A long session: one fix after the other, the clock advancing by a second *)

LongFeed ==
    << Gga(GPGGA, Time1, LatA, N, LonA, E, D("1"), D("8"), << "0", ".", "9" >>, D("5")),
       Rmc(Time1, LatB, N, LonA, E, << >>, << >>),
       Gga(GNGGA, Time2, LatB, N, LonA, W, D("2"), << >>, << >>, << >>) >>

ParseNext ==
    /\ nfed < MaxUpdates
    /\ Apply(parse_sentence(Parser, LongFeed[(nfed % Len(LongFeed)) + 1], clock + 1,
                            NoRaise))
    /\ fed' = LongFeed[(nfed % Len(LongFeed)) + 1]
    /\ nfed' = nfed + 1
    /\ UNCHANGED receiverVars

NextHist == ParseNext

SpecHist == Init /\ [][NextHist]_vars

-----------------------------------------------------------------------------
(* UDP mode: UDPReceiver with process_sentence of handle_udp_stream as data *)
(* callback                                                                  *)

\* The receiver and the parser it feeds, as one record
Receiver ==
    [ st              |-> Parser,
      sentence_buffer |-> sentence_buffer,
      stats           |-> stats,
      forwarded       |-> forwarded,
      ret             |-> ret,
      fed             |-> fed,
      nfed            |-> nfed,
      delivered       |-> delivered,
      raised          |-> FALSE ]

\* the receiver after the data callback returned r, or raised
Handed(rx, line, r) ==
    [ rx EXCEPT !.st = r.st,
                !.ret = r.ret,
                !.fed = line,
                !.nfed = @ + 1,
                !.delivered = r.calls,
                !.forwarded = Append(@, line),
                !.raised = (r.ret = ValueError) ]

\* process_sentence: the line goes to parse_sentence; an exception of
\* parse_sentence is not caught here
process_sentence(rx, line, now) ==
    Handed(rx, line, parse_sentence(rx.st, line, now, NoRaise))

\* sentences_parsed counts a call that returned
CountParsed(called) ==
    IF called.raised THEN called
    ELSE [ called EXCEPT !.stats.sentences_parsed = @ + 1 ]

\* the body of the loop on the stripped line
ProcessStripped(rx, line, now) ==
    IF line # << >> /\ Head(line) = "$"
    THEN CountParsed(process_sentence(rx, line, now))
    ELSE IF line # << >>
    THEN [ rx EXCEPT !.stats.parse_errors = @ + 1 ]
    ELSE rx

\* one turn of the loop over the complete lines
ProcessLine(rx, raw, now) == ProcessStripped(rx, Strip(raw), now)

RECURSIVE ProcessLines(_, _, _, _)
\* the loop over lines[i..]; an exception of the callback ends it
ProcessLines(rx, lines, i, now) ==
    IF i > Len(lines) \/ rx.raised THEN rx
    ELSE ProcessLines(ProcessLine(rx, lines[i], now), lines, i + 1, now)

\* a buffer that keeps the first piece instead of the last
ProcessSplit_FirstPiece(rx, lines, now) ==
    ProcessLines([ rx EXCEPT !.sentence_buffer = lines[1] ],
                 SubSeq(lines, 1, Len(lines) - 1), 1, now)

\* the last piece stays in the buffer, the pieces before it are processed
ProcessSplit(rx, lines, now) ==
    ProcessLines([ rx EXCEPT !.sentence_buffer = lines[Len(lines)] ],
                 SubSeq(lines, 1, Len(lines) - 1), 1, now)

_process_data(rx, data, now) ==
    ProcessSplit(rx, Split(rx.sentence_buffer \o data, "\n"), now)

\* the except clause of the loop
CountError(rx) ==
    IF rx.raised THEN [ rx EXCEPT !.stats.connection_errors = @ + 1 ] ELSE rx

\* the body of the loop on a received datagram: the counters, the decoding,
\* _process_data
ReceiveBody(rx, data, now) ==
    _process_data([ rx EXCEPT !.stats.packets_received = @ + 1,
                              !.stats.bytes_received = @ + Len(data) ],
                  data, now)

\* one turn of _receive_loop that receives a datagram, the handler of an
\* exception of the body included
ReceiveTurn(rx, data, now) == CountError(ReceiveBody(rx, data, now))

\* lines a GPS unit, or something else on the port, sends
UdpLines ==
    { << "$", "G", "P" >>,
      Sentence(GPGSV, << Bad >> \o Blank(6)),
      << "$", "G", "P", "Z", "D", "A", ",", "1", "\r" >>,
      << "x", "y" >>,
      << >> }

\* an unterminated end of the stream
UdpTails == { << >>, << "$", "G" >> }

RECURSIVE Flatten(_)
Flatten(ls) == IF ls = << >> THEN << >> ELSE Head(ls) \o << "\n" >> \o Flatten(Tail(ls))

Streams ==
    { Flatten(ls) \o tail :
        ls \in UNION { [ 1..n -> UdpLines ] : n \in 0..MaxLines }, tail \in UdpTails }

\* the socket start() binds
Bound == Some("bound")

\* start() has started the thread, which waits in recvfrom
InitUDP ==
    /\ InitParser
    /\ InitHost
    /\ position_callbacks = Parser0.position_callbacks
    /\ InitBuffer
    /\ running = TRUE
    /\ socket = Bound
    /\ thread = "recv"
    /\ caller = "starting"
    /\ wire \in Streams

\* the receiver record back into the variables
SetBuffer(rx) ==
    /\ SetParser(rx.st)
    /\ sentence_buffer' = rx.sentence_buffer
    /\ stats' = rx.stats
    /\ forwarded' = rx.forwarded
    /\ ret' = rx.ret
    /\ fed' = rx.fed
    /\ nfed' = rx.nfed
    /\ delivered' = rx.delivered

SetReceiver(rx) ==
    /\ SetBuffer(rx)
    /\ loop_errors' = IF rx.raised THEN loop_errors + 1 ELSE loop_errors

\* the receive loop receives the next datagram: any non-empty prefix of the
\* text still to arrive
ReceiveDatagram(k) ==
    /\ k <= Len(wire)
    /\ \E now \in Nows : SetReceiver(ReceiveTurn(Receiver, SubSeq(wire, 1, k), now))
    /\ consumed' = consumed \o SubSeq(wire, 1, k)
    /\ wire' = SubSeq(wire, k + 1, Len(wire))
    /\ UNCHANGED << lifeVars, hostVars >>

NextUDP == \E k \in 1..MaxDatagram : ReceiveDatagram(k)

SpecUDP == InitUDP /\ [][NextUDP]_vars

-----------------------------------------------------------------------------
(* UDP mode: the two threads of handle_udp_stream, start() to stop()          *)

parserVars == << position, time_info, satellites, fix_info, velocity, last_position,
                 position_history, position_callbacks, clock, delivered, ret, fed,
                 nfed, samples >>

\* a failure recvfrom raises that is not a timeout, in the order of arrival
SocketError == "OSError"

\* what arrives at the port: text and receive failures
LoopStreams ==
    { << SocketError, "$", "G", "P", "\n" >>,
      << "x", "y", "\n", SocketError, "$", "G" >>,
      Sentence(GPGSV, << Bad >> \o Blank(6)) \o << "\n", "$", "G", "P", "\n" >>,
      Rmc(Time1, LatB, N, LonA, E, << >>, << >>) \o << "\n" >> }

InitLoop ==
    /\ InitParser
    /\ InitHost
    /\ position_callbacks = Parser0.position_callbacks
    /\ InitReceiver
    /\ wire \in LoopStreams

\* the error callback and the counter, under "if self.running"
ReportIfRunning ==
    IF running
    THEN /\ loop_errors' = loop_errors + 1
         /\ stats' = [ stats EXCEPT !.connection_errors = @ + 1 ]
    ELSE UNCHANGED << loop_errors, stats >>

\* start() up to thread.start(), or its except clause when the bind fails
start ==
    /\ caller = "constructed"
    /\ \/ /\ socket' = Bound
          /\ running' = TRUE
          /\ thread' = "head"
          /\ caller' = "starting"
          /\ UNCHANGED << loop_errors, stats >>
       \/ /\ loop_errors' = loop_errors + 1
          /\ stats' = [ stats EXCEPT !.connection_errors = @ + 1 ]
          /\ caller' = "failed"
          /\ UNCHANGED << socket, running, thread >>
    /\ UNCHANGED << hostVars, parserVars, sentence_buffer, wire, consumed, forwarded >>

\* the rest of start(): the start time, return True
start_stamp ==
    /\ caller = "starting"
    /\ stats' = [ stats EXCEPT !.start_time = Some(clock) ]
    /\ caller' = "waiting"
    /\ UNCHANGED << hostVars, parserVars, sentence_buffer, wire, consumed, forwarded, loop_errors,
                    running, socket, thread >>

\* stop(): the flag
stop ==
    /\ caller = "waiting"
    /\ running' = FALSE
    /\ caller' = "closing"
    /\ UNCHANGED << hostVars, parserVars, sentence_buffer, stats, wire, consumed, forwarded,
                    loop_errors, socket, thread >>

\* a stop() that also empties the reassembly buffer
stop_close_ClearsBuffer ==
    /\ caller = "closing"
    /\ socket' = None
    /\ sentence_buffer' = << >>
    /\ caller' = "joining"
    /\ UNCHANGED << hostVars, parserVars, stats, wire, consumed, forwarded,
                    loop_errors, running, thread >>

\* stop(): the socket
stop_close ==
    /\ caller = "closing"
    /\ socket' = None
    /\ caller' = "joining"
    /\ UNCHANGED << hostVars, parserVars, sentence_buffer, stats, wire, consumed, forwarded,
                    loop_errors, running, thread >>

\* stop(): join returns, the thread ended or the two seconds over
stop_join ==
    /\ caller = "joining"
    /\ caller' = "stopped"
    /\ UNCHANGED << hostVars, parserVars, sentence_buffer, stats, wire, consumed, forwarded,
                    loop_errors, running, socket, thread >>

\* show_final_stats reads a copy of the statistics
get_stats ==
    /\ caller = "stopped"
    /\ caller' = "reported"
    /\ UNCHANGED << hostVars, parserVars, sentence_buffer, stats, wire, consumed, forwarded,
                    loop_errors, running, socket, thread >>

\* a loop that does not read the flag
loop_check_Forever ==
    /\ thread = "head"
    /\ thread' = "recv"
    /\ UNCHANGED << hostVars, parserVars, sentence_buffer, stats, wire, consumed, forwarded,
                    loop_errors, running, socket, caller >>

\* while self.running
loop_check ==
    /\ thread = "head"
    /\ thread' = IF running THEN "recv" ELSE "exited"
    /\ UNCHANGED << hostVars, parserVars, sentence_buffer, stats, wire, consumed, forwarded,
                    loop_errors, running, socket, caller >>

\* the loop after the body ran on a datagram
Received(rx) ==
    /\ SetBuffer(rx)
    /\ thread' = IF rx.raised THEN "raised" ELSE "head"

\* recvfrom returns a datagram, the body of the loop runs on it
recv_data(k) ==
    /\ thread = "recv"
    /\ socket # None
    /\ k <= Len(wire)
    /\ \A i \in 1..k : wire[i] # SocketError
    /\ \E now \in Nows : Received(ReceiveBody(Receiver, SubSeq(wire, 1, k), now))
    /\ consumed' = consumed \o SubSeq(wire, 1, k)
    /\ wire' = SubSeq(wire, k + 1, Len(wire))
    /\ UNCHANGED << loop_errors, running, socket, caller, hostVars >>

\* recvfrom raises socket.timeout: continue
recv_timeout ==
    /\ thread = "recv"
    /\ socket # None
    /\ thread' = "head"
    /\ UNCHANGED << hostVars, parserVars, sentence_buffer, stats, wire, consumed, forwarded,
                    loop_errors, running, socket, caller >>

\* recvfrom raises another exception: the failure that arrived, or the socket
\* stop() took away
recv_error ==
    /\ thread = "recv"
    /\ IF socket = None
       THEN UNCHANGED << wire, consumed >>
       ELSE /\ wire # << >>
            /\ Head(wire) = SocketError
            /\ consumed' = Append(consumed, SocketError)
            /\ wire' = Tail(wire)
    /\ thread' = "failed"
    /\ UNCHANGED << hostVars, parserVars, sentence_buffer, stats, forwarded, loop_errors,
                    running, socket, caller >>

\* an inner except clause that ends the loop
socket_except_Break ==
    /\ thread = "failed"
    /\ ReportIfRunning
    /\ thread' = "exited"
    /\ UNCHANGED << hostVars, parserVars, sentence_buffer, wire, consumed, forwarded,
                    running, socket, caller >>

\* the inner except clause: report if running, continue
socket_except ==
    /\ thread = "failed"
    /\ ReportIfRunning
    /\ thread' = "head"
    /\ UNCHANGED << hostVars, parserVars, sentence_buffer, wire, consumed, forwarded,
                    running, socket, caller >>

\* the outer except clause: report if running, pause, next turn
loop_except ==
    /\ thread = "raised"
    /\ ReportIfRunning
    /\ thread' = "head"
    /\ UNCHANGED << hostVars, parserVars, sentence_buffer, wire, consumed, forwarded,
                    running, socket, caller >>

\* the steps of the thread of _receive_loop
\* the ways recvfrom returns
recvfrom ==
    \/ recv_timeout
    \/ recv_error
    \/ \E k \in 1..MaxDatagram : recv_data(k)

_receive_loop ==
    \/ loop_check
    \/ recvfrom
    \/ socket_except
    \/ loop_except

\* the steps of the thread of handle_udp_stream
handle_udp_stream ==
    \/ start
    \/ start_stamp
    \/ stop
    \/ stop_close
    \/ stop_join
    \/ get_stats

NextLoop == handle_udp_stream \/ _receive_loop

SpecLoop == InitLoop /\ [][NextLoop]_vars

\* the thread of the loop is scheduled as long as it has a step to take:
\* recvfrom returns within the timeout of 1.0 s, the callbacks return
SpecLoopFair ==
    /\ SpecLoop
    /\ WF_vars(loop_check)
    /\ WF_vars(recvfrom)
    /\ WF_vars(socket_except)
    /\ WF_vars(loop_except)

-----------------------------------------------------------------------------
(* Vocabulary of the properties *)

Last(q) == q[Len(q)]

\* the receiver UDPReceiver.__init__ leaves, feeding a fresh parser
Receiver0 ==
    [ st |-> Parser0, sentence_buffer |-> << >>, stats |-> Stats0, forwarded |-> << >>,
      ret |-> Empty, fed |-> << >>, nfed |-> 0, delivered |-> << >>, raised |-> FALSE ]

\* the handler of a sentence, "" when its token has none
HandlerOf(sentence) == DecodeOf(sentence).handler

\* the minimum field counts and the record kinds as the specification lists them
MinFields ==
    [ parse_gga |-> 15, parse_rmc |-> 13, parse_gsa |-> 18, parse_gsv |-> 8,
      parse_vtg |-> 10, parse_gns |-> 13, parse_pqxfi |-> 9 ]

KindOf ==
    [ parse_gga |-> "GGA", parse_rmc |-> "RMC", parse_gsa |-> "GSA", parse_gsv |-> "GSV",
      parse_vtg |-> "VTG", parse_gns |-> "GNS", parse_pqxfi |-> "PQXFI" ]

Registered(sentence) == HandlerOf(sentence) # ""
EnoughFields(sentence) ==
    Len(SentenceParts(sentence)) >= MinFields[HandlerOf(sentence)]

\* a call of parse_sentence happens in this step
Called == nfed' = nfed + 1

\* the latitude and longitude a GGA or RMC sentence with enough fields carries
LatOf(sentence) ==
    LET parts == SentenceParts(sentence)
    IN  IF HandlerOf(sentence) = "parse_gga"
        THEN OptCoordinate(P(parts, 2), P(parts, 3))
        ELSE OptCoordinate(P(parts, 3), P(parts, 4))

LonOf(sentence) ==
    LET parts == SentenceParts(sentence)
    IN  IF HandlerOf(sentence) = "parse_gga"
        THEN OptCoordinate(P(parts, 4), P(parts, 5))
        ELSE OptCoordinate(P(parts, 5), P(parts, 6))

IsFix(sentence) ==
    HandlerOf(sentence) \in { "parse_gga", "parse_rmc" } /\ EnoughFields(sentence)

-----------------------------------------------------------------------------
(* C1 *)

\* C1: however the stream is cut into datagrams, the lines handed to the data
\* callback so far are the lines _process_data hands over when the text
\* received so far arrives as one chunk.
C1_ChunkingInvariant ==
    forwarded = _process_data(Receiver0, consumed, 0).forwarded

-----------------------------------------------------------------------------
(* C2 *)

\* C2: position is unset, or a triple whose latitude and longitude are both
\* present.
C2_PositionComplete ==
    position = None \/ (Val(position)[1] # None /\ Val(position)[2] # None)

\* a GGA or RMC carrying exactly one of the two coordinates was just decoded
\* while a position is held
C2_Witness ==
    /\ position # None
    /\ ret.type \in { "GGA", "RMC" }
    /\ (ret.latitude = None) # (ret.longitude = None)

-----------------------------------------------------------------------------
(* C3 *)

\* C3: a GGA or RMC with both coordinates present replaces position with the
\* decoded pair and emits exactly one position update; one with a coordinate
\* absent does neither.
C3_FixReplacesPosition ==
    [][ (Called /\ IsFix(fed')) =>
          IF LatOf(fed') # None /\ LonOf(fed') # None
          THEN /\ position' # None
               /\ Val(position')[1] = LatOf(fed')
               /\ Val(position')[2] = LonOf(fed')
               /\ Len(samples') = Len(samples) + 1
          ELSE /\ position' = position
               /\ samples' = samples ]_vars

-----------------------------------------------------------------------------
(* C4 *)

\* C4: a sentence of a registered kind with enough fields always comes back
\* as a record of that kind, whatever its numeric fields hold: no ValueError
\* leaves parse_sentence.
C4_NoFaultEscapes ==
    (nfed > 0 /\ Registered(fed) /\ EnoughFields(fed)) =>
        ret.type = KindOf[HandlerOf(fed)]

-----------------------------------------------------------------------------
(* C5 *)

\* C5: a sentence of a registered kind with fewer fields than the kind's
\* minimum returns the empty record, changes nothing of the navigation state
\* and calls no observer.
C5_ShortSentenceIgnored ==
    [][ (Called /\ Registered(fed') /\ ~EnoughFields(fed')) =>
          /\ ret' = Empty
          /\ delivered' = << >>
          /\ UNCHANGED << position, time_info, satellites, fix_info, velocity,
                          position_history, last_position >> ]_vars

\* a short sentence of a registered kind was just fed to a parser that holds
\* a position and has an observer registered
C5_Witness ==
    /\ nfed > 1
    /\ Registered(fed)
    /\ ~EnoughFields(fed)
    /\ ret = Empty
    /\ position # None
    /\ position_callbacks # << >>

-----------------------------------------------------------------------------
(* C6 *)

\* the satellite groups of a GSV sentence that name a PRN
PrnGroups(sentence) ==
    { i \in GsvGroups(SentenceParts(sentence)) : IsInt(P(SentenceParts(sentence), i)) }

PrnAt(sentence, i) == IntVal(P(SentenceParts(sentence), i))

\* the entries of a bucket for one PRN
EntriesOf(bucket, prn) == { k \in 1..Len(bucket) : bucket[k].prn = prn }

BucketOf(table, c) == IF c \in DOMAIN table THEN table[c] ELSE << >>

IsGsv(sentence) == HandlerOf(sentence) = "parse_gsv" /\ EnoughFields(sentence)

\* the last group of the sentence that names the PRN of group i
IsLastSighting(sentence, i) ==
    \A j \in PrnGroups(sentence) : PrnAt(sentence, j) = PrnAt(sentence, i) => j <= i

\* C6: after a GSV sentence its constellation bucket holds exactly one entry
\* for every PRN the sentence names, carrying the sentence's value of every
\* field the sentence gives; no bucket ever loses a PRN or holds one twice.
C6_OneEntryPerPrn ==
    [][ (Called /\ IsGsv(fed')) =>
          LET parts == SentenceParts(fed')
              bucket == BucketOf(satellites', get_constellation(P(parts, 0)))
          IN  /\ \A i \in PrnGroups(fed') :
                    /\ Cardinality(EntriesOf(bucket, PrnAt(fed', i))) = 1
                    /\ IsLastSighting(fed', i) =>
                         \A k \in EntriesOf(bucket, PrnAt(fed', i)) :
                            /\ IsFloat(P(parts, i + 1)) =>
                                 bucket[k].elevation = Some(FloatVal(P(parts, i + 1)))
                            /\ IsFloat(P(parts, i + 2)) =>
                                 bucket[k].azimuth = Some(FloatVal(P(parts, i + 2)))
                            /\ IsFloat(P(parts, i + 3)) =>
                                 bucket[k].snr = Some(FloatVal(P(parts, i + 3)))
              /\ \A c \in DOMAIN satellites :
                    \A k \in 1..Len(satellites[c]) :
                       Cardinality(EntriesOf(BucketOf(satellites', c),
                                             satellites[c][k].prn)) = 1 ]_vars

-----------------------------------------------------------------------------
(* C7 *)

\* C7: when a GSV sentence sights a satellite already in the table again, a
\* field absent in the sentence and present in the stored entry keeps the
\* stored value.
C7_AbsentKeepsStored ==
    [][ (Called /\ ret'.type = "GSV") =>
          LET old == BucketOf(satellites, ret'.constellation)
              new == BucketOf(satellites', ret'.constellation)
          IN  \A n \in 1..Len(ret'.satellites) :
                 \A k \in EntriesOf(old, ret'.satellites[n].prn) :
                    \A k2 \in EntriesOf(new, ret'.satellites[n].prn) :
                       /\ (ret'.satellites[n].elevation = None /\ old[k].elevation # None)
                             => new[k2].elevation = old[k].elevation
                       /\ (ret'.satellites[n].azimuth = None /\ old[k].azimuth # None)
                             => new[k2].azimuth = old[k].azimuth
                       /\ (ret'.satellites[n].snr = None /\ old[k].snr # None)
                             => new[k2].snr = old[k].snr ]_vars

-----------------------------------------------------------------------------
(* C8 *)

\* the movement between two samples, from their coordinates and timestamps
MovementBetween(prev, cur, m) ==
    /\ m.distance_m = _haversine_distance(Val(prev.latitude), Val(prev.longitude),
                                          Val(cur.latitude), Val(cur.longitude))
    /\ m.bearing_deg = _calculate_bearing(Val(prev.latitude), Val(prev.longitude),
                                          Val(cur.latitude), Val(cur.longitude))
    /\ m.time_diff_s = cur.timestamp - prev.timestamp

\* C8: the first position update hands the observer the new sample without
\* movement and leaves it as the whole history; every later one hands over a
\* sample whose movement is the one from the sample of the update before, of
\* whatever sentence kind, to the new sample.
C8_MovementFromPreceding ==
    [][ Len(samples') = Len(samples) + 1 =>
          /\ Len(delivered') = 1
          /\ LET event == delivered'[1].info
             IN  /\ event = Last(samples')
                 /\ IF samples = << >>
                    THEN /\ event.movement = None
                         /\ position_history' = << event >>
                    ELSE /\ event.movement # None
                         /\ MovementBetween(Last(samples), event, Val(event.movement)) ]_vars

\* three position updates, the first two at different places and times and
\* from different sentence kinds
C8_Witness ==
    /\ Len(samples) = 3
    /\ samples[1].latitude # samples[2].latitude
    /\ samples[1].timestamp # samples[2].timestamp
    /\ samples[2].source # samples[3].source
    /\ samples[3].movement # None
    /\ delivered # << >>

-----------------------------------------------------------------------------
(* C9 *)

\* the last n elements of a sequence
LastN(q, n) == IF Len(q) <= n THEN q ELSE SubSeq(q, Len(q) - n + 1, Len(q))

\* C9: position_history is the most recent min(n, 100) samples in arrival
\* order.
C9_HistoryMostRecent100 ==
    /\ Len(position_history) <= 100
    /\ position_history = LastN(samples, 100)

\* the 101st sample has arrived and the oldest one is gone
C9_Witness ==
    /\ Len(samples) = 101
    /\ Len(position_history) = 100
    /\ position_history[1] = samples[2]
    /\ position_history[100] = samples[101]

-----------------------------------------------------------------------------
(* C10 *)

\* C10: a position update calls every registered observer once, in
\* registration order, with the new sample, whether or not an earlier one
\* raised; parse_sentence returns the record; and the parser is left as it
\* would be had no observer raised.
C10_ObserverFaultIsolated ==
    [][ Len(samples') = Len(samples) + 1 =>
          /\ Len(delivered') = Len(position_callbacks)
          /\ \A i \in 1..Len(position_callbacks) :
                /\ delivered'[i].callback = position_callbacks[i]
                /\ delivered'[i].info = Last(samples')
          /\ ret' = DecodeOf(fed').ret
          /\ ret'.type \in { "GGA", "RMC" }
          /\ LET calm == parse_sentence(Parser, fed', clock', NoRaise).st
             IN  /\ position' = calm.position
                 /\ position_history' = calm.position_history
                 /\ last_position' = calm.last_position ]_vars

\* a position update in which the first of two observers raised and the
\* second was called all the same
C10_Witness ==
    /\ Len(delivered) = 2
    /\ delivered[1].raised
    /\ delivered[2].callback # delivered[1].callback
    /\ delivered[2].info = Val(last_position)
    /\ ret.type \in { "GGA", "RMC" }

-----------------------------------------------------------------------------
(* C11 *)

\* the complete lines of a text: the pieces before its last line break
CompleteLines(text) == SubSeq(Split(text, "\n"), 1, Len(Split(text, "\n")) - 1)

\* a line that is a sentence after trimming
IsSentenceLine(raw) == Strip(raw) # << >> /\ Head(Strip(raw)) = "$"

\* a line that is something else after trimming
IsNoiseLine(raw) == Strip(raw) # << >> /\ Head(Strip(raw)) # "$"

RECURSIVE SentenceLines(_)
\* the trimmed sentence lines among lines, in order
SentenceLines(lines) ==
    IF lines = << >> THEN << >>
    ELSE IF IsSentenceLine(Head(lines))
         THEN << Strip(Head(lines)) >> \o SentenceLines(Tail(lines))
         ELSE SentenceLines(Tail(lines))

\* C11: the lines handed to the data callback are exactly the complete lines
\* received that are non-empty after trimming and begin with '$', trimmed and
\* in order; parse_errors counts exactly the other non-empty complete lines;
\* blank lines are in neither.
C11_ForwardedIffSentence ==
    /\ forwarded = SentenceLines(CompleteLines(consumed))
    /\ stats.parse_errors =
           Cardinality({ i \in 1..Len(CompleteLines(consumed)) :
                           IsNoiseLine(CompleteLines(consumed)[i]) })


-----------------------------------------------------------------------------
(* C12 *)

IsVtg(sentence) == HandlerOf(sentence) = "parse_vtg" /\ EnoughFields(sentence)

\* C12: after a VTG sentence velocity holds the course, the speed in knots
\* and the speed in km/h the sentence gives, whether or not a position is
\* known; position, the history and the last sample are as before and no
\* observer is called.
C12_VtgUpdatesVelocityOnly ==
    [][ (Called /\ IsVtg(fed')) =>
          LET parts == SentenceParts(fed')
          IN  /\ IsFloat(P(parts, 1)) =>
                    /\ velocity' # None
                    /\ Val(velocity').course = Some(FloatVal(P(parts, 1)))
              /\ IsFloat(P(parts, 5)) =>
                    /\ velocity' # None
                    /\ Val(velocity').speed_knots = FloatVal(P(parts, 5))
              /\ IsFloat(P(parts, 7)) =>
                    /\ velocity' # None
                    /\ Val(velocity').speed_kmh = FloatVal(P(parts, 7))
              /\ UNCHANGED << position, position_history, last_position >>
              /\ delivered' = << >> ]_vars


-----------------------------------------------------------------------------
(* C13 *)

\* C13: a decoded GGA, RMC, GNS or PQXFI sentence that carries a time of day
\* leaves time_info at that time, with or without a position in the sentence.
C13_TimeOfDayStored ==
    [][ (Called /\ ret'.type \in { "GGA", "RMC", "GNS", "PQXFI" } /\ ret'.time # None)
          => time_info' = ret'.time ]_vars


-----------------------------------------------------------------------------
(* C14 *)

Zero == << "0" >>

\* C14: a count field that is empty in the text does not decode to the value
\* the text "0" decodes to; and a GGA count or coordinate that decodes to 0 is
\* stored like any other present value.
C14_AbsentIsNotZero ==
    [][ (Called /\ ret'.type \in { "GGA", "GNS", "GSV" }) =>
          LET parts == SentenceParts(fed')
          IN  /\ (ret'.type \in { "GGA", "GNS" } /\ P(parts, 7) = << >>)
                    => ret'.num_satellites # IntVal(Zero)
              /\ (ret'.type = "GSV" /\ P(parts, 1) = << >>)
                    => ret'.total_messages # IntVal(Zero)
              /\ (ret'.type = "GSV" /\ P(parts, 2) = << >>)
                    => ret'.message_num # IntVal(Zero)
              /\ (ret'.type = "GSV" /\ P(parts, 3) = << >>)
                    => ret'.total_satellites # IntVal(Zero)
              /\ (ret'.type = "GGA" /\ P(parts, 7) = Zero)
                    => (fix_info' # None /\ Val(fix_info').satellites = 0)
              /\ (ret'.type = "GGA" /\ ret'.latitude # None /\ ret'.longitude # None)
                    => (position' # None /\ Val(position')[1] = ret'.latitude
                                         /\ Val(position')[2] = ret'.longitude) ]_vars


-----------------------------------------------------------------------------
(* C15 *)

Stopped == caller \in { "joining", "stopped", "reported" }

\* C15: once stop() has cleared the flag and closed the socket they stay so;
\* after stop() is called the receive loop eventually exits; a loop that finds
\* the flag cleared, in an except clause or at the head of the loop, reports
\* no error and goes on to exit, and after the exit nothing more is received,
\* forwarded, counted or reported.
C15_StopEndsLoop ==
    /\ [](Stopped => (~running /\ socket = None))
    /\ (caller = "closing") ~> (thread = "exited")
    /\ [][ /\ (thread \in { "failed", "raised" } /\ ~running /\ thread' # thread)
                => (thread' = "head" /\ UNCHANGED << loop_errors, stats >>)
           /\ (thread = "head" /\ ~running /\ thread' # thread) => thread' = "exited"
           /\ thread = "exited"
                => (thread' = "exited"
                    /\ UNCHANGED << stats, loop_errors, forwarded, nfed, consumed,
                                    sentence_buffer, parserVars >>) ]_vars

\* stop() returned, the loop has exited, and it had received a datagram
C15_Witness ==
    /\ caller = "stopped"
    /\ thread = "exited"
    /\ ~running
    /\ socket = None
    /\ stats.packets_received > 0


-----------------------------------------------------------------------------
(* C16 *)

\* receive failures among what has arrived
Failures(q) == Cardinality({ i \in 1..Len(q) : q[i] = SocketError })

\* stop() has not been called on the started receiver
Serving == caller \in { "starting", "waiting" }

\* C16: while the receiver is running, every receive failure other than a
\* timeout is reported to the error callback once, with the connection-error
\* counter, and the loop goes on to the next turn; a timeout reports nothing;
\* the loop does not end while the receiver is running.
C16_SocketErrorReportedOnce ==
    /\ [](Serving =>
            /\ thread # "exited"
            /\ running
            /\ loop_errors + (IF thread \in { "failed", "raised" } THEN 1 ELSE 0)
                 = Failures(consumed) + (nfed - stats.sentences_parsed)
            /\ stats.connection_errors = loop_errors)
    /\ [][ /\ (thread = "failed" /\ thread' # thread /\ running)
                => /\ loop_errors' = loop_errors + 1
                   /\ stats'.connection_errors = stats.connection_errors + 1
                   /\ thread' = "head"
           /\ (thread = "recv" /\ thread' = "failed")
                => UNCHANGED << loop_errors, stats >>
           /\ (thread = "recv" /\ thread' = "head" /\ consumed' = consumed)
                => UNCHANGED << loop_errors, stats, forwarded, nfed >> ]_vars

\* a failure was reported, and a sentence that arrived after it was forwarded
C16_Witness ==
    /\ Serving
    /\ loop_errors = 1
    /\ consumed # << >>
    /\ Head(consumed) = SocketError
    /\ forwarded # << >>
    /\ stats.packets_received > 0


-----------------------------------------------------------------------------
(* C17 *)

\* the thread of _receive_loop has been started and has not ended
Alive == thread \notin { "none", "exited" }

NavigationState ==
    << position, time_info, satellites, fix_info, velocity, last_position >>

\* the counters of the reassembler
Counters(s) ==
    << s.packets_received, s.bytes_received, s.sentences_parsed, s.parse_errors,
       s.connection_errors >>

\* C17: while the receive thread is alive, a step that changes Navigation
\* State, the position history, the reassembly buffer or a counter of the
\* reassembler is a step of the receive thread: the thread of
\* handle_udp_stream (start, stop, get_stats) stands where it stood.
C17_SingleWriter ==
    [][ (/\ Alive
         /\ \/ NavigationState' # NavigationState
            \/ position_history' # position_history
            \/ sentence_buffer' # sentence_buffer
            \/ Counters(stats') # Counters(stats))
        => (caller' = caller /\ thread # "none" /\ thread' # thread) ]_vars

\* the receive thread has stored a position while stop() was under way
C17_Witness ==
    /\ Alive
    /\ caller \in { "closing", "joining", "stopped" }
    /\ position # None
    /\ position_history # << >>
    /\ stats.sentences_parsed > 0


-----------------------------------------------------------------------------
(* C18 *)

\* C18: every complete '$' line received so far has been handed to the
\* decoder, whether or not an earlier sentence failed: a sentence that fails
\* takes no other line with it, and the loop is still receiving.
C18_BadSentenceDroppedAlone ==
    /\ nfed = Len(SentenceLines(CompleteLines(consumed)))
    /\ Len(forwarded) = nfed
    /\ thread = "recv"


-----------------------------------------------------------------------------
(* C19 *)

\* texts that may follow the '*' of a sentence
ChecksumTails ==
    { << >>, << "0", "0" >>, << "4", "7" >>, << "Z" >>, << "4", "7", ",", "9" >> }

\* the sentence with the text after its first '*' replaced
WithTail(sentence, tail) == Split(sentence, "*")[1] \o << "*" >> \o tail

\* what parse_sentence returns and stores for the sentence in the parser st
Outcome(st, sentence, now) ==
    LET r == Store(st, Decode(sentence), now, NoRaise)
    IN  << r.ret, r.st.position, r.st.time_info, r.st.satellites, r.st.fix_info,
           r.st.velocity, r.st.last_position, r.st.position_history >>

\* C19: a sentence of a registered kind gives the record and the Navigation
\* State that the same sentence gives with any other text after its '*'.
C19_ChecksumIgnored ==
    [][ (Called /\ Registered(fed') /\ Contains(fed', "*")) =>
          \A tail \in ChecksumTails :
              Outcome(Parser, WithTail(fed', tail), clock')
                = << ret', position', time_info', satellites', fix_info', velocity',
                     last_position', position_history' >> ]_vars


-----------------------------------------------------------------------------
(* C20 *)

\* the record holds the fix detail of the GSA record
HoldsDetail(stored, result) ==
    /\ stored # None
    /\ { "satellites_used", "pdop", "hdop", "vdop" } \subseteq DOMAIN Val(stored)
    /\ Val(stored).satellites_used = result.satellites_used
    /\ Val(stored).pdop = result.pdop
    /\ Val(stored).hdop = result.hdop
    /\ Val(stored).vdop = result.vdop

\* C20: a decoded GSA sentence leaves position, the history and the last
\* position as they were, delivers no position update, and its
\* satellites-used list and PDOP/HDOP/VDOP are in the state of the parser
\* after the call (the fix record, the one attribute that holds fix detail).
C20_GsaStoredApart ==
    [][ (Called /\ ret' \notin { Empty, ValueError } /\ ret'.type = "GSA") =>
          /\ UNCHANGED << position, position_history, last_position >>
          /\ delivered' = << >>
          /\ HoldsDetail(fix_info', ret') ]_vars


-----------------------------------------------------------------------------
(* C21 *)

\* the sentence goes to parse_gns or parse_pqxfi, or its token has no handler
IsInformational(sentence) ==
    /\ sentence # << >>
    /\ Head(sentence) = "$"
    /\ HandlerOf(sentence) \in { "parse_gns", "parse_pqxfi", "" }

\* what the text of an informational sentence says: its token, whether it has
\* the fields its handler asks for, and the coordinates in fields 2 to 5 of
\* one that has
Carries(sentence) ==
    [ token     |-> Split(Tail(sentence), ",")[1],
      enough    |-> Registered(sentence) /\ EnoughFields(sentence),
      latitude  |-> IF Registered(sentence) /\ EnoughFields(sentence)
                    THEN OptCoordinate(P(SentenceParts(sentence), 2),
                                       P(SentenceParts(sentence), 3))
                    ELSE None,
      longitude |-> IF Registered(sentence) /\ EnoughFields(sentence)
                    THEN OptCoordinate(P(SentenceParts(sentence), 4),
                                       P(SentenceParts(sentence), 5))
                    ELSE None ]

Carried == [ sentence \in { s \in Catalogue : IsInformational(s) } |-> Carries(sentence) ]

CarriedBy(sentence) ==
    IF sentence \in DOMAIN Carried THEN Carried[sentence] ELSE Carries(sentence)

-----------------------------------------------------------------------------
(* C22 *)

\* the non-empty lines without '$' among the complete lines of the text
NoiseLines(text) ==
    Cardinality({ i \in 1..Len(CompleteLines(text)) : IsNoiseLine(CompleteLines(text)[i]) })

\* C22: each datagram received adds one to packets_received and its length to
\* bytes_received; bytes_received is the length of everything received,
\* sentences_parsed the number of lines handed to the decoder, parse_errors
\* the number of non-empty lines discarded; no counter ever decreases.
C22_CountersExact ==
    /\ [](/\ stats.bytes_received = Len(consumed)
          /\ stats.sentences_parsed = Len(forwarded)
          /\ stats.sentences_parsed = nfed
          /\ stats.parse_errors = NoiseLines(consumed))
    /\ [][ /\ consumed' # consumed
                => /\ stats'.packets_received = stats.packets_received + 1
                   /\ stats'.bytes_received
                        = stats.bytes_received + Len(consumed') - Len(consumed)
           /\ stats'.packets_received >= stats.packets_received
           /\ stats'.bytes_received >= stats.bytes_received
           /\ stats'.sentences_parsed >= stats.sentences_parsed
           /\ stats'.parse_errors >= stats.parse_errors ]_vars


-----------------------------------------------------------------------------
(* C23 *)

\* the call made a position update
Updated == Len(samples') = Len(samples) + 1

\* C23: a position update made by an RMC leaves position with the RMC's
\* coordinates and no altitude, one made by a GGA with the GGA's coordinates
\* and the GGA's own altitude, absent if the GGA has none: the altitude of
\* position never comes from an earlier sentence.
C23_AltitudeOfThisFix ==
    [][ (Called /\ Updated) =>
          /\ ret'.type \in { "GGA", "RMC" }
          /\ position' = Some(<< ret'.latitude, ret'.longitude,
                                 IF ret'.type = "RMC" THEN None ELSE ret'.altitude >>)
          /\ Last(samples').altitude = Val(position')[3] ]_vars

\* an RMC has just cleared the altitude a GGA had supplied to the sample before
C23_Witness ==
    /\ Len(samples) >= 2
    /\ Last(samples).source = "RMC"
    /\ samples[Len(samples) - 1].source = "GGA"
    /\ samples[Len(samples) - 1].altitude # None
    /\ position # None
    /\ Val(position)[3] = None


-----------------------------------------------------------------------------
(* C24 *)

\* C24: the movement of a new sample carries the elapsed time since the
\* sample before it, the distance and bearing between the two and is-moving
\* whatever the elapsed time; the three speeds are 0 when the elapsed time is
\* zero or negative, and the speed in m/s is the distance divided by the
\* elapsed time, the other two converted from it, when it is positive.
C24_SpeedZeroUnlessElapsed ==
    [][ (Called /\ Updated /\ Last(samples').movement # None) =>
          LET prev    == Last(samples)
              cur     == Last(samples')
              m       == Val(cur.movement)
              elapsed == cur.timestamp - prev.timestamp
          IN  /\ m.time_diff_s = elapsed
              /\ m.distance_m = _haversine_distance(Val(prev.latitude), Val(prev.longitude),
                                                    Val(cur.latitude), Val(cur.longitude))
              /\ m.bearing_deg = _calculate_bearing(Val(prev.latitude), Val(prev.longitude),
                                                    Val(cur.latitude), Val(cur.longitude))
              /\ m.is_moving = (m.distance_m > MovementThreshold * Scale)
              /\ elapsed <= 0 => (m.speed_ms = 0 /\ m.speed_knots = 0 /\ m.speed_kmh = 0)
              /\ elapsed > 0 => /\ m.speed_ms = m.distance_m \div elapsed
                                /\ m.speed_knots = MulDiv(m.speed_ms, 12149, 6250)
                                /\ m.speed_kmh = MulDiv(m.speed_ms, 18, 5) ]_vars

\* a sample stamped before the one it follows, at a distance from it, moving,
\* with speed 0
C24_Witness ==
    /\ samples # << >>
    /\ Last(samples).movement # None
    /\ Val(Last(samples).movement).time_diff_s < 0
    /\ Val(Last(samples).movement).distance_m > 0
    /\ Val(Last(samples).movement).is_moving
    /\ Val(Last(samples).movement).speed_ms = 0


-----------------------------------------------------------------------------
(* C25 *)

\* the block timeout of the block-based processing, in seconds
BlockTimeout == 2

\* two samples of one fix: the same time of day and coordinates, one from a
\* GGA and one from an RMC, stamped within the block timeout
SameFix(a, b) ==
    /\ a.source # b.source
    /\ a.time = b.time
    /\ a.latitude = b.latitude
    /\ a.longitude = b.longitude
    /\ b.timestamp - a.timestamp \in 0..(BlockTimeout - 1)

\* C25: a GGA and an RMC of the same fix, arriving within the block timeout,
\* make one position update, not one each.
C25_OneUpdatePerBlock ==
    [][ (Called /\ Updated /\ samples # << >>)
          => ~SameFix(Last(samples), Last(samples')) ]_vars


-----------------------------------------------------------------------------
(* C26 *)

\* C26: once a position update has been made, last_position is the last
\* element of position_history and the sample of the most recent update, and
\* every observer invoked by an update was given that sample.
C26_LastIsNewest ==
    /\ [](samples # << >> =>
            /\ last_position # None
            /\ position_history # << >>
            /\ Val(last_position) = Last(position_history)
            /\ Val(last_position) = Last(samples))
    /\ [][ Updated =>
             \A i \in 1..Len(delivered') : delivered'[i].info = Val(last_position') ]_vars

\* the second update or a later one, with its movement, was delivered
C26_Witness ==
    /\ Len(samples) >= 2
    /\ last_position # None
    /\ Val(last_position).movement # None
    /\ Val(last_position) = Last(position_history)
    /\ delivered # << >>
    /\ delivered[1].info = Val(last_position)


-----------------------------------------------------------------------------
(* C27 *)

\* C27: after every datagram the buffer holds no line break and is the text
\* received since the last line break, the whole text when there was none;
\* it is empty exactly when nothing was received or the text received ends
\* with a line break.
C27_BufferIsTail ==
    /\ ~Contains(sentence_buffer, "\n")
    /\ sentence_buffer = Last(Split(consumed, "\n"))
    /\ consumed = SubSeq(consumed, 1, Len(consumed) - Len(sentence_buffer))
                     \o sentence_buffer
    /\ (sentence_buffer = << >>) <=> (consumed = << >> \/ Last(consumed) = "\n")

\* a line was forwarded, a later one failed, and an unfinished line is kept
C27_Witness ==
    /\ forwarded # << >>
    /\ loop_errors > 0
    /\ sentence_buffer # << >>
    /\ Contains(consumed, "\n")
    /\ Len(sentence_buffer) < Len(consumed)


-----------------------------------------------------------------------------
(* C28 *)

-----------------------------------------------------------------------------
(* The IOx service: start() to stop() on the main thread                      *)

MaxProcessed == 2

\* what config.mode can read
Modes == { "udp", "file", "other" }

\* the methods and the fields an NMEAParser object has
NMEAParserAttributes ==
    { "__init__", "parse_sentence", "parse_gga", "parse_rmc", "parse_gsa",
      "parse_gsv", "parse_vtg", "parse_gns", "parse_pqxfi", "parse_time",
      "parse_date", "parse_coordinate", "get_fix_quality", "get_fix_type",
      "get_constellation", "colorize", "get_signal_color",
      "get_fix_quality_color", "format_position", "format_time",
      "format_satellites", "format_velocity", "format_summary", "to_json",
      "get_summary_dict", "add_position_callback", "remove_position_callback",
      "_process_new_position", "_calculate_movement", "_haversine_distance",
      "_calculate_bearing", "colors", "position_callbacks", "last_position",
      "position_history", "parsers", "position", "time_info", "satellites",
      "fix_info", "velocity" }

\* everything the service leaves alone
serviceFrame == << parserVars, sentence_buffer, stats, wire, consumed, forwarded,
                   loop_errors, lifeVars, splunk >>

InitService ==
    /\ InitParser
    /\ position_callbacks = Parser0.position_callbacks
    /\ InitReceiver
    /\ wire = << >>
    /\ splunk = Splunk0
    /\ \E mode \in Modes : service = Service0(mode)

\* start(): the flag and the start time
service_start ==
    /\ service.main = "constructed"
    /\ service' = [ service EXCEPT !.running = TRUE, !.main = "web" ]
    /\ UNCHANGED serviceFrame

\* start(): the web interface, a failure to start it is a warning
start_web ==
    /\ service.main = "web"
    /\ \E ok \in BOOLEAN :
          service' = [ service EXCEPT !.web_server = IF ok THEN "serving" ELSE "created",
                                      !.main = "mode" ]
    /\ UNCHANGED serviceFrame

\* _start_udp_mode up to the service loop; a receiver that does not start
\* raises RuntimeError, which start() answers with False
_start_udp_mode ==
    /\ service.main = "mode"
    /\ service.mode = "udp"
    /\ \E ok \in BOOLEAN :
          service' = [ service EXCEPT !.udp_receiver = IF ok THEN "running" ELSE "created",
                                      !.main = IF ok THEN "loop" ELSE "failed" ]
    /\ UNCHANGED serviceFrame

\* _start_file_mode up to the loop over the lines; a missing file raises
\* RuntimeError, which start() answers with False
_start_file_mode ==
    /\ service.main = "mode"
    /\ service.mode = "file"
    /\ \E found \in BOOLEAN :
          service' = [ service EXCEPT !.main = IF found THEN "file" ELSE "failed" ]
    /\ UNCHANGED serviceFrame

\* start() with a mode it does not know
start_unknown ==
    /\ service.main = "mode"
    /\ service.mode \notin { "udp", "file" }
    /\ service' = [ service EXCEPT !.main = "failed" ]
    /\ UNCHANGED serviceFrame

\* one turn of the loop over the lines of the file: a line is processed, or
\* the file ends or the flag is down and start() returns True
file_line ==
    /\ service.main = "file"
    /\ \/ /\ service.running
          /\ service.sentences_processed < MaxProcessed
          /\ service' = [ service EXCEPT !.sentences_processed = @ + 1 ]
       \/ service' = [ service EXCEPT !.main = "started" ]
    /\ UNCHANGED serviceFrame

\* the receiver's thread hands a sentence to _process_nmea_sentence
_process_nmea_sentence ==
    /\ service.udp_receiver = "running"
    /\ service.sentences_processed < MaxProcessed
    /\ service' = [ service EXCEPT !.sentences_processed = @ + 1 ]
    /\ UNCHANGED serviceFrame

\* _service_loop finds the flag down and start() returns True
_service_loop ==
    /\ service.main = "loop"
    /\ ~ service.running
    /\ service' = [ service EXCEPT !.main = "started" ]
    /\ UNCHANGED serviceFrame

\* stop() is entered: the flag goes down
Stopping(svc, entered) ==
    [ svc EXCEPT !.running = FALSE, !.main = "stop_receiver", !.entered = entered ]

\* a signal arrives while the main thread is in start() or waits in main()
_signal_handler ==
    /\ service.main \in { "web", "mode", "loop", "file", "started" }
    /\ service.entered = "never"
    /\ service' = [ Stopping(service, "signal") EXCEPT !.interrupted = service.main ]
    /\ UNCHANGED serviceFrame

\* the handler is left and the main thread goes on where the signal found
\* it: after a return at that place, after an exception at the except clause
\* around it, which is the one of _service_loop, of _start_file_mode, of
\* start() or of main()
handler_left ==
    /\ service.main \in { "stop_raised", "stop_returned" }
    /\ service.entered = "signal"
    /\ service' = [ service EXCEPT
                      !.entered = "resumed",
                      !.main = IF service.main = "stop_returned" THEN service.interrupted
                               ELSE IF service.interrupted = "loop" THEN "loop"
                               ELSE IF service.interrupted = "file" THEN "started"
                               ELSE "failed" ]
    /\ UNCHANGED serviceFrame

\* stop() called on a service never started, and by the finally clause of
\* main() after start() returned or an exception reached main()
service_stop ==
    /\ \/ service.main \in { "constructed", "failed" }
       \/ service.main = "started" /\ ~ service.running
    /\ service' = Stopping(service, "call")
    /\ UNCHANGED serviceFrame

\* stop(): the receiver, if there is one
stop_receiver ==
    /\ service.main = "stop_receiver"
    /\ service' = [ service EXCEPT
                      !.udp_receiver = IF @ # "None" THEN "stopped" ELSE @,
                      !.main = "stop_web" ]
    /\ UNCHANGED serviceFrame

\* stop(): the web server, if there is one; NMEAWebServer.stop does nothing
\* without a server
stop_web ==
    /\ service.main = "stop_web"
    /\ service' = [ service EXCEPT
                      !.web_server = IF @ = "serving" THEN "stopped" ELSE @,
                      !.main = "stop_force" ]
    /\ UNCHANGED serviceFrame

\* stop(): self.nmea_parser.force_block_processing(), then the last log line
stop_force ==
    /\ service.main = "stop_force"
    /\ service' = [ service EXCEPT !.main =
                      IF "force_block_processing" \in NMEAParserAttributes
                      THEN "stop_returned"
                      ELSE "stop_raised" ]
    /\ UNCHANGED serviceFrame

NextService ==
    \/ service_start
    \/ start_web
    \/ _start_udp_mode
    \/ _start_file_mode
    \/ start_unknown
    \/ file_line
    \/ _process_nmea_sentence
    \/ _service_loop
    \/ _signal_handler
    \/ handler_left
    \/ service_stop
    \/ stop_receiver
    \/ stop_web
    \/ stop_force

SpecService == InitService /\ [][NextService]_vars

-----------------------------------------------------------------------------
(* C29 *)

\* C29: stop() never raises; once it has returned the flag is down and
\* neither a receiver nor a web server of the service is still at work,
\* whether the service was started in UDP mode, in file mode or not at all.
C29_StopCompletes ==
    /\ service.main # "stop_raised"
    /\ service.main = "stop_returned"
          => /\ ~ service.running
             /\ service.udp_receiver # "running"
             /\ service.web_server # "serving"

\* stop() has gone through the receiver and the web server of a started
\* service and stands at the call into the parser
C29_Reached ==
    /\ service.main = "stop_force"
    /\ service.udp_receiver = "stopped"
    /\ service.web_server = "stopped"


-----------------------------------------------------------------------------
(* The Splunk logger: producers, the batch thread and disconnect()            *)

MaxEvents == 3

\* config.batch_size, read from SPLUNK_BATCH_SIZE
BatchSize == 2

\* the threads that call _send_batch
Workers == { "batch_thread", "closer" }

\* everything the logger leaves alone
splunkFrame == << parserVars, sentence_buffer, stats, wire, consumed, forwarded,
                  loop_errors, lifeVars, service >>

\* the logger connect() leaves when it succeeds: the index, the flag and the
\* batch thread started
InitSplunk ==
    /\ InitParser
    /\ position_callbacks = Parser0.position_callbacks
    /\ InitReceiver
    /\ wire = << >>
    /\ service = Service0("udp")
    /\ splunk = [ Splunk0 EXCEPT !.connected = TRUE,
                                 !.index = Some("index"),
                                 !.batch_thread = Worker0("head") ]

\* log_nmea_data and log_summary_data: the test of the connection
log_check ==
    /\ splunk.producer = "idle"
    /\ splunk.accepted < MaxEvents
    /\ splunk.connected
    /\ splunk' = [ splunk EXCEPT !.producer = "checked" ]
    /\ UNCHANGED splunkFrame

\* log_nmea_data and log_summary_data: put_nowait, return True
log_put ==
    /\ splunk.producer = "checked"
    /\ splunk' = [ splunk EXCEPT !.event_queue = Append(@, splunk.accepted + 1),
                                 !.accepted = @ + 1,
                                 !.late = @ \/ splunk.closer.pc # "idle",
                                 !.producer = "idle" ]
    /\ UNCHANGED splunkFrame

\* the head of the while loop, and what follows the loop
batch_head ==
    /\ splunk.batch_thread.pc = "head"
    /\ splunk' = [ splunk EXCEPT !.batch_thread =
                     IF ~ splunk.shutdown_event THEN [ @ EXCEPT !.pc = "get" ]
                     ELSE IF @.events # << >>
                          THEN [ @ EXCEPT !.pc = "send", !.leaving = TRUE ]
                          ELSE [ @ EXCEPT !.pc = "exited" ] ]
    /\ UNCHANGED splunkFrame

\* event_queue.get(timeout=1): an event, or Empty
batch_get ==
    /\ splunk.batch_thread.pc = "get"
    /\ splunk' = IF splunk.event_queue # << >>
                 THEN [ splunk EXCEPT
                          !.batch_thread.events = Append(@, Head(splunk.event_queue)),
                          !.batch_thread.pc = "decide",
                          !.event_queue = Tail(@) ]
                 ELSE [ splunk EXCEPT !.batch_thread.pc = "decide" ]
    /\ UNCHANGED splunkFrame

\* should_send: the batch is full, or it has waited batch_timeout
batch_decide ==
    /\ splunk.batch_thread.pc = "decide"
    /\ \E waited \in BOOLEAN :
          splunk' = [ splunk EXCEPT !.batch_thread.pc =
                        IF /\ \/ Len(splunk.batch_thread.events) >= BatchSize
                              \/ splunk.batch_thread.events # << >> /\ waited
                           /\ splunk.batch_thread.events # << >>
                        THEN "send"
                        ELSE "head" ]
    /\ UNCHANGED splunkFrame

_batch_processor == batch_head \/ batch_get \/ batch_decide

\* where a thread goes on when _send_batch returns
AfterSend(t, w) ==
    IF t = "closer" THEN [ w EXCEPT !.pc = "clear" ]
    ELSE IF w.leaving THEN [ w EXCEPT !.pc = "exited" ]
    ELSE [ w EXCEPT !.pc = "head", !.events = << >> ]

\* _send_batch: the test of the connection
send_check(t) ==
    /\ splunk[t].pc = "send"
    /\ splunk' = [ splunk EXCEPT
                     ![t].pc = IF ~ splunk.connected \/ splunk.index = None
                               THEN "load_failed"
                               ELSE "submit",
                     !.handled = Append(@, [ by |-> t, events |-> splunk[t].events ]) ]
    /\ UNCHANGED splunkFrame

\* _send_batch: self.index.submit returns or raises; it raises on an index
\* disconnect() has cleared meanwhile
send_submit(t) ==
    /\ splunk[t].pc = "submit"
    /\ \E ok \in BOOLEAN :
          splunk' = [ splunk EXCEPT ![t].pc =
                        IF ok /\ splunk.index # None THEN "load_sent" ELSE "load_failed" ]
    /\ UNCHANGED splunkFrame

\* _send_batch: the "+=" on a counter reads it
send_load(t) ==
    /\ splunk[t].pc \in { "load_sent", "load_failed" }
    /\ splunk' = IF splunk[t].pc = "load_sent"
                 THEN [ splunk EXCEPT ![t].loaded = splunk.stats.events_sent,
                                      ![t].pc = "store_sent" ]
                 ELSE [ splunk EXCEPT ![t].loaded = splunk.stats.events_failed,
                                      ![t].pc = "store_failed" ]
    /\ UNCHANGED splunkFrame

\* _send_batch: the "+=" stores what it read plus len(events), and returns
send_store(t) ==
    /\ splunk[t].pc \in { "store_sent", "store_failed" }
    /\ splunk' = IF splunk[t].pc = "store_sent"
                 THEN [ splunk EXCEPT
                          !.stats.events_sent = splunk[t].loaded + Len(splunk[t].events),
                          !.stats.batches_sent = @ + 1,
                          ![t] = AfterSend(t, @) ]
                 ELSE [ splunk EXCEPT
                          !.stats.events_failed = splunk[t].loaded + Len(splunk[t].events),
                          ![t] = AfterSend(t, @) ]
    /\ UNCHANGED splunkFrame

_send_batch ==
    \E t \in Workers : send_check(t) \/ send_submit(t) \/ send_load(t) \/ send_store(t)

\* disconnect(): the shutdown event
disconnect_set ==
    /\ splunk.closer.pc = "idle"
    /\ splunk' = [ splunk EXCEPT !.shutdown_event = TRUE, !.closer.pc = "join" ]
    /\ UNCHANGED splunkFrame

\* disconnect(): join(timeout=5) returns when the batch thread has exited, or
\* after five seconds of a batch thread that waits in index.submit
disconnect_join ==
    /\ splunk.closer.pc = "join"
    /\ \/ /\ splunk.batch_thread.pc \in { "none", "exited" }
          /\ splunk' = [ splunk EXCEPT !.closer.pc = "flush" ]
       \/ /\ splunk.batch_thread.pc = "submit"
          /\ splunk' = [ splunk EXCEPT !.closer.pc = "flush", !.join_timed_out = TRUE ]
    /\ UNCHANGED splunkFrame

\* one turn of the loop of get_nowait, and what follows Empty
_flush_remaining_events ==
    /\ splunk.closer.pc = "flush"
    /\ splunk' = IF splunk.event_queue # << >>
                 THEN [ splunk EXCEPT
                          !.closer.events = Append(@, Head(splunk.event_queue)),
                          !.event_queue = Tail(@) ]
                 ELSE [ splunk EXCEPT !.closer.pc =
                          IF splunk.closer.events # << >> THEN "send" ELSE "clear" ]
    /\ UNCHANGED splunkFrame

\* disconnect(): connected, service and index are cleared, and it returns
disconnect_clear ==
    /\ splunk.closer.pc = "clear"
    /\ splunk' = [ splunk EXCEPT !.connected = FALSE, !.index = None,
                                 !.closer.pc = "returned" ]
    /\ UNCHANGED splunkFrame

disconnect == disconnect_set \/ disconnect_join \/ disconnect_clear

NextSplunk ==
    \/ log_check
    \/ log_put
    \/ _batch_processor
    \/ _send_batch
    \/ disconnect
    \/ _flush_remaining_events

SpecSplunk == InitSplunk /\ [][NextSplunk]_vars

-----------------------------------------------------------------------------
(* C30 *)

\* the events handed to _send_batch so far, in order
RECURSIVE HandledEvents(_)
HandledEvents(handled) ==
    IF handled = << >> THEN << >>
    ELSE HandledEvents(SubSeq(handled, 1, Len(handled) - 1))
           \o handled[Len(handled)].events

\* disconnect() has returned, the batch thread has exited
ShutDown ==
    /\ splunk.closer.pc = "returned"
    /\ splunk.batch_thread.pc = "exited"

\* C30: no accepted event goes to _send_batch twice, the batch thread never
\* sends more than batch_size events at once, and once disconnect() has
\* returned and the batch thread has exited every accepted event is counted
\* in events_sent or in events_failed.
C30_EveryEventCountedOnce ==
    /\ \A i, j \in 1..Len(HandledEvents(splunk.handled)) :
          i # j => HandledEvents(splunk.handled)[i] # HandledEvents(splunk.handled)[j]
    /\ \A b \in 1..Len(splunk.handled) :
          splunk.handled[b].by = "batch_thread"
              => Len(splunk.handled[b].events) <= BatchSize
    /\ ShutDown
          => splunk.stats.events_sent + splunk.stats.events_failed = splunk.accepted

\* the logger is shut down after it accepted events and sent some in a batch
C30_Reached ==
    /\ ShutDown
    /\ splunk.accepted = MaxEvents
    /\ splunk.stats.events_sent > 0


=============================================================================
